---- MODULE Spec2Model ----
(***************************************************************************)
(* goLemming: the agent's perceive-decide-act loop (package agent), the    *)
(* action protocol (package protocol), the response parser (package llm)   *)
(* and the action executor (package action).                               *)
(*                                                                         *)
(* One Agent value is shared by the caller threads of Threads.  Each       *)
(* thread may call Agent.Run once; Agent.Stop and the cancellation of the  *)
(* context handed to Run may happen at any moment.  The observation        *)
(* source, the language model and the file system are the environment:     *)
(* their outcomes are chosen nondeterministically.                         *)
(***************************************************************************)
EXTENDS Integers, Sequences, FiniteSets, TLC

VARIABLES
    maxIterations,   \* config.MaxIterations
    requireAbs,      \* config.RequireAbsolutePaths, copied into the Executor
    onAction,        \* Agent.onAction is set (non-nil)
    state,           \* Agent.state
    result,          \* Agent.result
    goal,            \* Agent.goal
    history,         \* Agent.history.entries (the LLMEntry of each Entry)
    cancelled,       \* ctx.Done() is closed
    pc,              \* per thread: position inside Agent.Run / Agent.step
    iter,            \* per thread: the loop counter i of Agent.Run
    nextAction,      \* per thread: nextAction of Agent.step
    execResult,      \* per thread: result of Agent.step
    pending,         \* per thread: the value Run is returning (defer not yet run)
    ret,             \* per thread: the value Run has returned
    calls,           \* per thread: collaborator calls made (observe, oracle, execute)
    observed,        \* the outcome of each capture.CaptureAndEncode call, in order
    decided,         \* each GetAction call: its arguments, the reply and the result
    executed,        \* the actions passed to Executor.Execute, in order
    results,         \* the Result each Executor.Execute call returned, in order
    effected,        \* the effector calls each Executor.Execute call made, in order
    notified,        \* the (action, result) pairs passed to the onAction callback
    cancelAt,        \* what the run looked like when the context was cancelled
    subject,         \* an Action value a caller of Validate holds
    submitted,       \* that action as it was before the first Validate call
    verdicts,        \* the error each Validate call on it returned, in order
    evalOrder,       \* the build: which operand of handleEnter's return is evaluated first
    view,            \* ui.Model.view
    finalStatus,     \* ui.Model.finalStatus
    finalMessage,    \* ui.Model.finalMessage
    actionHistory,   \* ui.Model.actionHistory
    iterationNum,    \* ui.Model.iterationNum
    agentCancel,     \* ui.Model.agentCancel: the agent whose context it cancels ("" for nil)
    updateCh,        \* ui.Model.updateCh: the messages in the channel's buffer
    waiting,         \* the waitForUpdate commands blocked in their receive
    delivered,       \* the messages received by waitForUpdate and not yet handled by Update
    agents,          \* the agents startAgent has created, each with its goroutine and context
    processed,       \* every message Update has handled, in order
    mu,              \* Agent.mu: the goroutine holding the write lock, those holding read locks
    at,              \* per goroutine: its position relative to the critical sections of a.mu
    seen,            \* what a supervising goroutine got from State() and then Result()
    unguarded,       \* the accesses to a.state and a.result made without holding a.mu
    slice,           \* History.entries in memory: the slice header's words and the arrays
    adding,          \* the loop goroutine inside History.Add
    viewing,         \* a supervising goroutine inside History.Len, Last or All
    views,           \* what Len, Last and All have returned to it, in order
    responseText,    \* the text of a reply handed to ParseAction
    parsed,          \* each ParseAction call: the text, the cleaned text, what it returned
    report,          \* what runHeadless has printed about the run, and the exit status
    prompts          \* each BuildUserPrompt call: the history's lines and the prompt

\* The state of a lone Action under Validate (package protocol).
protocol == <<subject, submitted, verdicts>>

\* The terminal UI (package ui): the Model, its update channel, the agents it
\* has started and what has passed between them.
ui == <<evalOrder, view, finalStatus, finalMessage, actionHistory, iterationNum,
        agentCancel, updateCh, waiting, delivered, agents, processed>>

\* The agent's mutex and the goroutines around it, step by step.
guard == <<mu, at, seen, unguarded>>

\* The History value in memory and the goroutines using it, step by step.
snapshot == <<slice, adding, viewing, views>>

\* A reply text under ParseAction.
parsing == <<responseText, parsed>>

\* What the agent's run does not touch.
others == <<protocol, ui, guard, snapshot, parsing, report, prompts>>

vars == <<maxIterations, requireAbs, onAction, state, result, goal, history,
          cancelled, pc, iter, nextAction, execResult, pending, ret, calls,
          observed, decided, executed, results, effected, notified, cancelAt, others>>

(***************************************************************************)
(* Bounds of the model.                                                    *)
(***************************************************************************)
MaxBudget == 2

Threads == {"t1", "t2"}

\* The goal each caller passes to Run.
GoalOf == [t \in Threads |-> IF t = "t1" THEN "open notepad" ELSE "close window"]

(***************************************************************************)
(* Agent states (agent.State).                                             *)
(***************************************************************************)
StateIdle == "idle"
StateRunning == "running"
StateCompleted == "completed"
StateFailed == "failed"
StateStopped == "stopped"

IsTerminal(s) == s = StateCompleted \/ s = StateFailed \/ s = StateStopped

(***************************************************************************)
(* Action protocol (protocol.Action and its kinds).                        *)
(***************************************************************************)
ActionClick == "click"
ActionType_ == "type"
ActionKey == "key"
ActionScroll == "scroll"
ActionFileRead == "file_read"
ActionFileWrite == "file_write"
ActionWait == "wait"
ActionDone == "done"
ActionFailed == "failed"

NonTerminalKinds == {ActionClick, ActionType_, ActionKey, ActionScroll,
                     ActionFileRead, ActionFileWrite, ActionWait}

ActionKinds == NonTerminalKinds \cup {ActionDone, ActionFailed}

\* The zero value of protocol.Action: what json.Unmarshal leaves for absent keys.
ZeroAction ==
    [Type |-> "", X |-> 0, Y |-> 0, Button |-> "", Double |-> FALSE, Text |-> "",
     Key |-> "", Direction |-> "", Amount |-> 0, Path |-> "", Content |-> "",
     Ms |-> 0, Summary |-> "", Reason |-> ""]

\* A nil error of Validate, and a *ValidationError.
NoValidationError == [Field |-> "", Message |-> ""]

ValidationError(field, message) == [Field |-> field, Message |-> message]

\* The default an omitted click button gets.
DefaultButton == "left"

\* The default an omitted scroll amount gets.
DefaultAmount == 3

\* The default an omitted wait duration gets.
DefaultMs == 500

\* The message of the unknown-type error.
UnknownTypeMessage(t) == "unknown action type: " \o t

\* The outcome of Validate: the error it returns and the action as it
\* leaves it (Validate writes the defaults through its pointer receiver).
Valid(a) == [err |-> NoValidationError, action |-> a]

Invalid(a, field, message) == [err |-> ValidationError(field, message), action |-> a]

\* A click case that sets the button whatever it was.
ValidateClickAlwaysLeft(a) == Valid([a EXCEPT !.Button = DefaultButton])

\* case ActionClick
ValidateClick(a) ==
    Valid(IF a.Button = "" THEN [a EXCEPT !.Button = DefaultButton] ELSE a)

\* case ActionType_
ValidateType(a) ==
    IF a.Text = "" THEN Invalid(a, "text", "text is required for type action")
    ELSE Valid(a)

\* case ActionKey
ValidateKey(a) ==
    IF a.Key = "" THEN Invalid(a, "key", "key is required for key action")
    ELSE Valid(a)

\* A scroll case that writes the default amount before it looks at the
\* direction.
ValidateScrollDefaultFirst(a) ==
    LET b == IF a.Amount = 0 THEN [a EXCEPT !.Amount = DefaultAmount] ELSE a
    IN  IF b.Direction = ""
          THEN Invalid(b, "direction", "direction is required for scroll action")
          ELSE Valid(b)

\* case ActionScroll
ValidateScroll(a) ==
    IF a.Direction = ""
      THEN Invalid(a, "direction", "direction is required for scroll action")
      ELSE Valid(IF a.Amount = 0 THEN [a EXCEPT !.Amount = DefaultAmount] ELSE a)

\* case ActionFileRead
ValidateFileRead(a) ==
    IF a.Path = "" THEN Invalid(a, "path", "path is required for file_read action")
    ELSE Valid(a)

\* case ActionFileWrite
ValidateFileWrite(a) ==
    IF a.Path = "" THEN Invalid(a, "path", "path is required for file_write action")
    ELSE Valid(a)

\* case ActionWait
ValidateWait(a) ==
    Valid(IF a.Ms = 0 THEN [a EXCEPT !.Ms = DefaultMs] ELSE a)

\* case ActionDone: the summary is optional
ValidateDone(a) == Valid(a)

\* case ActionFailed
ValidateFailed(a) ==
    IF a.Reason = "" THEN Invalid(a, "reason", "reason is required for failed action")
    ELSE Valid(a)

\* default: any other tag
ValidateUnknownAccepted(a) == Valid(a)

ValidateUnknown(a) == Invalid(a, "type", UnknownTypeMessage(a.Type))

\* Action.Validate: the switch on a.Type.
Validate(a) ==
    CASE a.Type = ActionClick -> ValidateClick(a)
      [] a.Type = ActionType_ -> ValidateType(a)
      [] a.Type = ActionKey -> ValidateKey(a)
      [] a.Type = ActionScroll -> ValidateScroll(a)
      [] a.Type = ActionFileRead -> ValidateFileRead(a)
      [] a.Type = ActionFileWrite -> ValidateFileWrite(a)
      [] a.Type = ActionWait -> ValidateWait(a)
      [] a.Type = ActionDone -> ValidateDone(a)
      [] a.Type = ActionFailed -> ValidateFailed(a)
      [] OTHER -> ValidateUnknown(a)

(***************************************************************************)
(* The language model's reply and its parsing (llm.ParseAction,            *)
(* llm.Client.GetAction).  A reply is modelled after cleanResponse by what *)
(* json.Unmarshal makes of it: not an object at all, or the decoded        *)
(* fields of protocol.Action with absent keys left at their zero values.   *)
(***************************************************************************)
AbsolutePaths == {"/tmp/notes.txt"}

RelativePaths == {"notes.txt"}

\* filepath.IsAbs.
IsAbs(path) == path \in AbsolutePaths

\* The decoded objects the model can reply with: every kind with its
\* required field present and absent and its defaulted field absent, and two
\* unknown tags.
RawDecisions ==
    {[ZeroAction EXCEPT !.Type = ActionClick, !.X = 10, !.Y = 20]}
    \cup {[ZeroAction EXCEPT !.Type = ActionType_, !.Text = t] : t \in {"", "hello"}}
    \cup {[ZeroAction EXCEPT !.Type = ActionKey, !.Key = k] : k \in {"", "ctrl+s"}}
    \cup {[ZeroAction EXCEPT !.Type = ActionScroll, !.Direction = d] : d \in {"", "down"}}
    \cup {[ZeroAction EXCEPT !.Type = ActionFileRead, !.Path = p] :
            p \in {""} \cup RelativePaths}
    \cup {[ZeroAction EXCEPT !.Type = ActionFileWrite, !.Path = p, !.Content = "text"] :
            p \in {""} \cup AbsolutePaths}
    \cup {[ZeroAction EXCEPT !.Type = ActionWait]}
    \cup {[ZeroAction EXCEPT !.Type = ActionDone, !.Summary = s] : s \in {"", "all done"}}
    \cup {[ZeroAction EXCEPT !.Type = ActionFailed, !.Reason = r] : r \in {"", "no window"}}
    \cup {[ZeroAction EXCEPT !.Type = t] : t \in {"", "drag"}}

\* The reply texts: one that is not JSON, and one per decoded object.
Responses ==
    {[json |-> FALSE, obj |-> ZeroAction]}
    \cup {[json |-> TRUE, obj |-> d] : d \in RawDecisions}

\* What the API call can come back with: a transport error, a message with no
\* content, a message with no text block, or a text reply.
OracleOutcomes ==
    {[api |-> a, text |-> [json |-> FALSE, obj |-> ZeroAction]] :
        a \in {"error", "empty", "notext"}}
    \cup {[api |-> "ok", text |-> r] : r \in Responses}

\* The error values of GetAction / ParseAction: cause names the failing stage,
\* field the ValidationError's Field, message its Message.
NoError == [cause |-> "", field |-> "", message |-> ""]

ParseError(cause, verr) == [cause |-> cause, field |-> verr.Field, message |-> verr.Message]

\* ParseAction that hands back the decoded action whatever Validate said.
ParseActionUnchecked(response) ==
    IF ~response.json
      THEN [err |-> ParseError("json", NoValidationError), action |-> ZeroAction]
      ELSE [err |-> NoError, action |-> Validate(response.obj).action]

\* ParseAction that validates a copy and hands back the decoded action.
ParseActionOnCopy(response) ==
    IF ~response.json
      THEN [err |-> ParseError("json", NoValidationError), action |-> ZeroAction]
      ELSE LET v == Validate(response.obj)
           IN  IF v.err # NoValidationError
                 THEN [err |-> ParseError("validation", v.err), action |-> ZeroAction]
                 ELSE [err |-> NoError, action |-> response.obj]

\* llm.ParseAction on a reply: unmarshal, then Validate once; the action is
\* returned only when both succeed.
ParseAction(response) ==
    IF ~response.json
      THEN [err |-> ParseError("json", NoValidationError), action |-> ZeroAction]
      ELSE LET v == Validate(response.obj)
           IN  IF v.err # NoValidationError
                 THEN [err |-> ParseError("validation", v.err), action |-> ZeroAction]
                 ELSE [err |-> NoError, action |-> v.action]

(***************************************************************************)
(* Reply texts.  A text is a sequence of tokens: a run of white space, a   *)
(* code-fence marker, the word json, a brace, a word of prose, or the      *)
(* members of a JSON object (what stands between its braces).  The members *)
(* are the keys present and the value of each.                             *)
(***************************************************************************)
\* The JSON key of each field of protocol.Action (its struct tag).
JsonName ==
    [Type |-> "type", X |-> "x", Y |-> "y", Button |-> "button", Double |-> "double",
     Text |-> "text", Key |-> "key", Direction |-> "direction", Amount |-> "amount",
     Path |-> "path", Content |-> "content", Ms |-> "ms", Summary |-> "summary",
     Reason |-> "reason"]

Fields == DOMAIN ZeroAction

NoMembers == [present |-> {}, value |-> ZeroAction]

Tok(ch) == [ch |-> ch, members |-> NoMembers]

Space == Tok(" ")

\* The code-fence marker, three backquotes.
Fence == Tok("fence")

OpenBrace == Tok("{")

CloseBrace == Tok("}")

\* The text of a JSON object with the members m.
Object(m) == <<OpenBrace, [ch |-> "members", members |-> m], CloseBrace>>

\* A Marshal that never writes the double flag.
MembersWithoutDouble(a) ==
    [present |-> {JsonName[f] :
                    f \in {g \in Fields \ {"Double"} : g = "Type" \/ a[g] # ZeroAction[g]}},
     value |-> a]

\* The members json.Marshal writes for an Action: the type always, every
\* other field only when it is not the zero value (omitempty).
Members(a) ==
    [present |-> {JsonName[f] : f \in {g \in Fields : g = "Type" \/ a[g] # ZeroAction[g]}},
     value |-> a]

\* json.Marshal(a).
Marshal(a) == Object(Members(a))

\* What json.Unmarshal writes into a zero Action for the members m: the
\* value of every key present, nothing for the others.
Decode(m) ==
    [Type |-> IF "type" \in m.present THEN m.value.Type ELSE ZeroAction.Type,
     X |-> IF "x" \in m.present THEN m.value.X ELSE ZeroAction.X,
     Y |-> IF "y" \in m.present THEN m.value.Y ELSE ZeroAction.Y,
     Button |-> IF "button" \in m.present THEN m.value.Button ELSE ZeroAction.Button,
     Double |-> IF "double" \in m.present THEN m.value.Double ELSE ZeroAction.Double,
     Text |-> IF "text" \in m.present THEN m.value.Text ELSE ZeroAction.Text,
     Key |-> IF "key" \in m.present THEN m.value.Key ELSE ZeroAction.Key,
     Direction |-> IF "direction" \in m.present THEN m.value.Direction
                   ELSE ZeroAction.Direction,
     Amount |-> IF "amount" \in m.present THEN m.value.Amount ELSE ZeroAction.Amount,
     Path |-> IF "path" \in m.present THEN m.value.Path ELSE ZeroAction.Path,
     Content |-> IF "content" \in m.present THEN m.value.Content ELSE ZeroAction.Content,
     Ms |-> IF "ms" \in m.present THEN m.value.Ms ELSE ZeroAction.Ms,
     Summary |-> IF "summary" \in m.present THEN m.value.Summary ELSE ZeroAction.Summary,
     Reason |-> IF "reason" \in m.present THEN m.value.Reason ELSE ZeroAction.Reason]

\* strings.TrimSpace, HasPrefix, TrimPrefix, HasSuffix, TrimSuffix, Index and
\* LastIndex on token sequences; the indices count from 0, -1 is "absent".
RECURSIVE TrimLeft(_)
TrimLeft(t) == IF t # <<>> /\ Head(t) = Space THEN TrimLeft(Tail(t)) ELSE t

RECURSIVE TrimRight(_)
TrimRight(t) ==
    IF t # <<>> /\ t[Len(t)] = Space THEN TrimRight(SubSeq(t, 1, Len(t) - 1)) ELSE t

TrimSpace(t) == TrimRight(TrimLeft(t))

HasPrefix(t, prefix) == Len(prefix) <= Len(t) /\ SubSeq(t, 1, Len(prefix)) = prefix

TrimPrefix(t, prefix) == IF HasPrefix(t, prefix) THEN SubSeq(t, Len(prefix) + 1, Len(t)) ELSE t

HasSuffix(t, suffix) ==
    Len(suffix) <= Len(t) /\ SubSeq(t, Len(t) - Len(suffix) + 1, Len(t)) = suffix

TrimSuffix(t, suffix) == IF HasSuffix(t, suffix) THEN SubSeq(t, 1, Len(t) - Len(suffix)) ELSE t

Occurrences(t, tok) == {i \in 1..Len(t) : t[i] = tok}

Least(S) == CHOOSE i \in S : \A j \in S : i <= j

Greatest(S) == CHOOSE i \in S : \A j \in S : j <= i

Index(t, tok) == IF Occurrences(t, tok) = {} THEN -1 ELSE Least(Occurrences(t, tok)) - 1

LastIndex(t, tok) == IF Occurrences(t, tok) = {} THEN -1 ELSE Greatest(Occurrences(t, tok)) - 1

\* The boundaries of the object: the first opening and the last closing
\* brace of the text.
Boundaries(t) == [start |-> Index(t, OpenBrace), end |-> LastIndex(t, CloseBrace)]

\* llm.cleanResponse, lines 31-56.
cleanResponse(text) ==
    LET trimmed == TrimSpace(text)
        opened == IF HasPrefix(trimmed, <<Fence, Tok("json")>>)
                    THEN TrimPrefix(trimmed, <<Fence, Tok("json")>>)
                  ELSE IF HasPrefix(trimmed, <<Fence>>)
                    THEN TrimPrefix(trimmed, <<Fence>>)
                  ELSE trimmed
        closed == IF HasSuffix(opened, <<Fence>>) THEN TrimSuffix(opened, <<Fence>>)
                  ELSE opened
        inner == TrimSpace(closed)
        b == Boundaries(inner)
    IN  IF b.start >= 0 /\ b.end > b.start
          THEN SubSeq(inner, b.start + 1, b.end + 1)
          ELSE inner

\* json.Unmarshal([]byte(cleaned), &action), lines 17-20: the text must be
\* one JSON value, white space around it allowed, and the value an object.
Unmarshal(text) ==
    LET t == TrimSpace(text)
    IN  IF t = <<OpenBrace, CloseBrace>>
          THEN [json |-> TRUE, obj |-> ZeroAction]
        ELSE IF Len(t) = 3 /\ t = Object(t[2].members) /\ t[2].ch = "members"
          THEN [json |-> TRUE, obj |-> Decode(t[2].members)]
        ELSE [json |-> FALSE, obj |-> ZeroAction]

\* llm.ParseAction on a reply text, lines 12-28.
ParseText(text) == ParseAction(Unmarshal(cleanResponse(text)))

\* The request fails without a reply.
RequestFailed == [api |-> "error", text |-> [json |-> FALSE, obj |-> ZeroAction]]

\* A request that does not look at its context.
MessagesNewWithoutContext(ctxDone, outcome) == outcome

\* c.client.Messages.New(ctx, ...): the request is made with the run's
\* context, and a request on a cancelled context fails with the context's
\* error; otherwise the environment decides what comes back.
MessagesNew(ctxDone, outcome) == IF ctxDone THEN RequestFailed ELSE outcome

\* A GetAction that takes a failed request for an empty decision.
GetActionSwallowsRequestError(reply) ==
    IF reply.api # "ok" THEN [err |-> NoError, action |-> ZeroAction]
    ELSE ParseAction(reply.text)

\* A step that validates the decision a second time after GetAction.
ValidationsWithRecheck(reply) == IF reply.api = "ok" /\ reply.text.json THEN 2 ELSE 0

\* The number of calls of Action.Validate one GetAction makes: the one call
\* in ParseAction (parser.go line 23), reached when the request returned a
\* text and json.Unmarshal accepted it; no other code calls Validate.
Validations(reply) == IF reply.api = "ok" /\ reply.text.json THEN 1 ELSE 0

\* llm.Client.GetAction on what the request came back with.
GetAction(reply) ==
    IF reply.api = "error"
      THEN [err |-> ParseError("api", NoValidationError), action |-> ZeroAction]
    ELSE IF reply.api = "empty"
      THEN [err |-> ParseError("empty", NoValidationError), action |-> ZeroAction]
    ELSE IF reply.api = "notext"
      THEN [err |-> ParseError("notext", NoValidationError), action |-> ZeroAction]
    ELSE ParseAction(reply.text)

(***************************************************************************)
(* The user prompt (prompt.go).  A string is the sequence of its pieces: a *)
(* piece is a character of a payload, a literal of the code, or one of the *)
(* verbs %s, %q, %d that the package's own sprintf looks for.  The Text,   *)
(* Path and Error of a history entry are such sequences here.              *)
(***************************************************************************)
\* The length formatType cuts a typed text to.
PreviewLen == 50

\* The string of n characters c.
Chars(n, c) == [i \in 1..n |-> c]

\* A short string of the program as one piece.
Piece(s) == IF s = "" THEN <<>> ELSE <<s>>

Digit(d) ==
    CASE d = 0 -> "0" [] d = 1 -> "1" [] d = 2 -> "2" [] d = 3 -> "3" [] d = 4 -> "4"
      [] d = 5 -> "5" [] d = 6 -> "6" [] d = 7 -> "7" [] d = 8 -> "8" [] d = 9 -> "9"

RECURSIVE Digits(_)
Digits(n) == IF n = 0 THEN <<>> ELSE Append(Digits(n \div 10), Digit(n % 10))

\* itoa.
itoa(n) ==
    IF n = 0 THEN <<"0">>
    ELSE IF n < 0 THEN <<"-">> \o Digits(-n)
    ELSE Digits(n)

\* replaceFirst for a verb: the first occurrence of the piece old in s is
\* replaced by new.
replaceFirst(s, old, new) ==
    IF Occurrences(s, old) = {} THEN s
    ELSE LET i == Least(Occurrences(s, old))
         IN  SubSeq(s, 1, i - 1) \o new \o SubSeq(s, i + 1, Len(s))

StringArg(s) == [kind |-> "string", v |-> s]

IntArg(n) == [kind |-> "int", v |-> n]

\* sprintf: for each argument in turn, a string replaces the first %s and is
\* put quoted in place of the first %q, an int replaces the first %d.
RECURSIVE sprintf(_, _)
sprintf(format, args) ==
    IF args = <<>> THEN format
    ELSE LET arg == Head(args)
             next == IF arg.kind = "string"
                       THEN replaceFirst(replaceFirst(format, "%s", arg.v), "%q",
                                         <<"\"">> \o arg.v \o <<"\"">>)
                       ELSE replaceFirst(format, "%d", itoa(arg.v))
         IN  sprintf(next, Tail(args))

formatAction(kind, format, args) == <<kind, ": ">> \o sprintf(format, args)

formatEntry(num, rendered, status) ==
    sprintf(<<"%d", ". ", "%s", " [", "%s", "]\n">>,
            <<IntArg(num), StringArg(rendered), StringArg(status)>>)

formatClick(e) ==
    LET btn == IF e.Action.Button = "" THEN "left" ELSE e.Action.Button
        dbl == IF e.Action.Double THEN " double" ELSE ""
    IN  formatAction("click", <<"%s", "%s", " at (", "%d", ", ", "%d", ")">>,
                     <<StringArg(Piece(btn)), StringArg(Piece(dbl)), IntArg(e.Action.X),
                       IntArg(e.Action.Y)>>)

formatType(e) ==
    LET text == IF Len(e.Action.Text) > PreviewLen
                  THEN SubSeq(e.Action.Text, 1, PreviewLen) \o <<"...">>
                  ELSE e.Action.Text
    IN  formatAction("type", <<"%q">>, <<StringArg(text)>>)

formatKey(e) == formatAction("key", <<"%s">>, <<StringArg(Piece(e.Action.Key))>>)

formatScroll(e) ==
    formatAction("scroll", <<"%s", " ", "%d">>,
                 <<StringArg(Piece(e.Action.Direction)), IntArg(e.Action.Amount)>>)

formatFileRead(e) == formatAction("file_read", <<"%s">>, <<StringArg(e.Action.Path)>>)

formatFileWrite(e) == formatAction("file_write", <<"%s">>, <<StringArg(e.Action.Path)>>)

formatWait(e) == formatAction("wait", <<"%d", "ms">>, <<IntArg(e.Action.Ms)>>)

formatHistoryEntry(num, e) ==
    LET rendered ==
          CASE e.Action.Type = "click" -> formatClick(e)
            [] e.Action.Type = "type" -> formatType(e)
            [] e.Action.Type = "key" -> formatKey(e)
            [] e.Action.Type = "scroll" -> formatScroll(e)
            [] e.Action.Type = "file_read" -> formatFileRead(e)
            [] e.Action.Type = "file_write" -> formatFileWrite(e)
            [] e.Action.Type = "wait" -> formatWait(e)
            [] OTHER -> Piece(e.Action.Type)
        status == IF e.Error # <<>> THEN <<"ERROR: ">> \o e.Error ELSE <<"OK">>
    IN  formatEntry(num, rendered, status)

\* The lines of the entries h[from], h[from + 1], ... one after the other.
RECURSIVE HistoryLines(_, _)
HistoryLines(h, from) ==
    IF from > Len(h) THEN <<>>
    ELSE formatHistoryEntry(from, h[from]) \o HistoryLines(h, from + 1)

BuildUserPrompt(g, h) ==
    <<"## Goal\n", g, "\n\n">>
    \o (IF Len(h) > 0 THEN <<"## Action History\n">> \o HistoryLines(h, 1) \o <<"\n">>
        ELSE <<>>)
    \o <<"## Current Screenshot\nAnalyze the screenshot below and decide the next action.\n">>

(***************************************************************************)
(* The executor (action.Executor, action.ReadFile, action.WriteFile).      *)
(* fs is what the file system does with the call: "ok", or "io" when the   *)
(* read, the directory creation or the write fails.                        *)
(***************************************************************************)
FsOutcomes == {"ok", "io"}

\* The same with the directory creation of WriteFile failing on its own
\* ("mkdir").
FileOutcomes == FsOutcomes \cup {"mkdir"}

\* The key strings with a "+" in them: strings.Contains(key, "+").
Combos == {"ctrl+s"}

IsCombo(key) == key \in Combos

Success(data) == [Success |-> TRUE, Error |-> "", Data |-> data]

Failure(error) == [Success |-> FALSE, Error |-> error, Data |-> ""]

\* An executeFileRead that leaves the error text out of its Result.
executeFileReadWithoutMessage(a, requireAbsolute, fs) ==
    IF requireAbsolute /\ ~IsAbs(a.Path) THEN Failure("")
    ELSE IF fs = "io" THEN Failure("")
    ELSE Success("file content")

\* action.ReadFile: the content and the error ("" for nil).
ReadFile(path, requireAbsolute, fs) ==
    IF requireAbsolute /\ ~IsAbs(path)
      THEN [content |-> "", err |-> "path must be absolute: " \o path]
    ELSE IF fs = "io"
      THEN [content |-> "", err |-> "failed to read file: " \o path]
    ELSE [content |-> "file content", err |-> ""]

\* A WriteFile that never looks at the policy.
WriteFileUnchecked(path, content, requireAbsolute, fs) ==
    IF fs = "mkdir" THEN "failed to create directory: " \o path
    ELSE IF fs = "io" THEN "failed to write file: " \o path
    ELSE ""

\* action.WriteFile: the error ("" for nil).
WriteFile(path, content, requireAbsolute, fs) ==
    IF requireAbsolute /\ ~IsAbs(path) THEN "path must be absolute: " \o path
    ELSE IF fs = "mkdir" THEN "failed to create directory: " \o path
    ELSE IF fs = "io" THEN "failed to write file: " \o path
    ELSE ""

executeFileRead(a, requireAbsolute, fs) ==
    LET r == ReadFile(a.Path, requireAbsolute, fs)
    IN  IF r.err # "" THEN Failure(r.err) ELSE Success(r.content)

executeFileWrite(a, requireAbsolute, fs) ==
    LET err == WriteFile(a.Path, a.Content, requireAbsolute, fs)
    IN  IF err # "" THEN Failure(err) ELSE Success("")

\* Executor.Execute: dispatch on the action's type.
Execute(a, requireAbsolute, fs) ==
    CASE a.Type \in {ActionClick, ActionType_, ActionKey, ActionScroll, ActionWait} ->
           Success("")
      [] a.Type = ActionFileRead -> executeFileRead(a, requireAbsolute, fs)
      [] a.Type = ActionFileWrite -> executeFileWrite(a, requireAbsolute, fs)
      [] a.Type \in {ActionDone, ActionFailed} -> Success("")
      [] OTHER -> Failure("unknown action type: " \o a.Type)

\* A call of an effector (package input, package os, time.Sleep) and whether
\* it failed.
Call(fn) == [fn |-> fn, failed |-> FALSE]

Failed(fn) == [fn |-> fn, failed |-> TRUE]

\* The effector calls ReadFile makes.
ReadFileCalls(path, requireAbsolute, fs) ==
    IF requireAbsolute /\ ~IsAbs(path) THEN <<>>
    ELSE IF fs = "io" THEN <<Failed("os.ReadFile")>>
    ELSE <<Call("os.ReadFile")>>

\* The effector calls WriteFile makes.
WriteFileCalls(path, requireAbsolute, fs) ==
    IF requireAbsolute /\ ~IsAbs(path) THEN <<>>
    ELSE IF fs = "mkdir" THEN <<Failed("os.MkdirAll")>>
    ELSE IF fs = "io" THEN <<Call("os.MkdirAll"), Failed("os.WriteFile")>>
    ELSE <<Call("os.MkdirAll"), Call("os.WriteFile")>>

\* The effector calls Executor.Execute makes for action a, in order.
Effectors(a, requireAbsolute, fs) ==
    CASE a.Type = ActionClick ->
           <<Call("input.Move"), Call("time.Sleep"), Call("input.Click")>>
      [] a.Type = ActionType_ -> <<Call("input.TypeText")>>
      [] a.Type = ActionKey ->
           IF IsCombo(a.Key) THEN <<Call("input.KeyCombo")>> ELSE <<Call("input.KeyPress")>>
      [] a.Type = ActionScroll -> <<Call("input.ScrollDir")>>
      [] a.Type = ActionFileRead -> ReadFileCalls(a.Path, requireAbsolute, fs)
      [] a.Type = ActionFileWrite -> WriteFileCalls(a.Path, requireAbsolute, fs)
      [] a.Type = ActionWait -> <<Call("time.Sleep")>>
      [] OTHER -> <<>>

\* The zero Result, held by a step that has not executed anything.
NoResult == [Success |-> FALSE, Error |-> "", Data |-> ""]

\* An entry that leaves the error out.
ToHistoryEntryWithoutError(a, r) == [Action |-> a, Error |-> ""]

\* action.ToHistoryEntry.
ToHistoryEntry(a, r) == [Action |-> a, Error |-> IF ~r.Success THEN r.Error ELSE ""]

(***************************************************************************)
(* The history (agent.History).  entries is the sequence of the LLMEntry   *)
(* values of h.entries.                                                    *)
(***************************************************************************)
\* An Add that puts the entry in front.
HistoryAddInFront(entries, entry) == <<entry>> \o entries

\* History.Add: h.entries = append(h.entries, ...).
HistoryAdd(entries, entry) == Append(entries, entry)

\* A GetLLMHistory that leaves the latest entry out.
GetLLMHistoryWithoutLatest(entries) == SubSeq(entries, 1, Len(entries) - 1)

\* History.GetLLMHistory: a new slice with the LLMEntry of every entry.
GetLLMHistory(entries) == SubSeq(entries, 1, Len(entries))

(***************************************************************************)
(* The values Agent.Run returns.  kind "none" stands for "has not          *)
(* returned"; cause, field and message carry the wrapped GetAction error,   *)
(* state the state named by the not-idle error, n the budget named by the   *)
(* max-iterations error.                                                    *)
(***************************************************************************)
RunValue(kind, e, s, n) ==
    [kind |-> kind, cause |-> e.cause, field |-> e.field, message |-> e.message,
     state |-> s, n |-> n]

NotReturned == RunValue("none", NoError, "", 0)

NilError == RunValue("nil", NoError, "", 0)

\* fmt.Errorf("agent is not idle (current state: %s)", a.state)
NotIdleError(s) == RunValue("not idle", NoError, s, 0)

\* ctx.Err()
ContextError == RunValue("context canceled", NoError, "", 0)

\* fmt.Errorf("failed to capture screenshot: %w", err)
CaptureError == RunValue("failed to capture screenshot", NoError, "", 0)

\* A step error that does not wrap the oracle's error.
LLMErrorWithoutCause(e) == RunValue("failed to get action from LLM", NoError, "", 0)

\* fmt.Errorf("failed to get action from LLM: %w", err)
LLMError(e) == RunValue("failed to get action from LLM", e, "", 0)

\* fmt.Errorf("max iterations (%d) reached", a.config.MaxIterations)
MaxIterationsError(n) == RunValue("max iterations reached", NoError, "", n)

MaxIterationsResult == "max iterations reached"

(***************************************************************************)
(* The decisions of Agent.Run, Agent.step and Agent.Stop.                  *)
(***************************************************************************)
\* An entry that accepts the call in every state.
RunEntryAlways(s, oldGoal, g) == [accepted |-> TRUE, state |-> StateRunning, goal |-> g]

\* An entry that stores the goal before it looks at the state.
RunEntryGoalFirst(s, oldGoal, g) ==
    IF s # StateIdle
      THEN [accepted |-> FALSE, state |-> s, goal |-> g]
      ELSE [accepted |-> TRUE, state |-> StateRunning, goal |-> g]

\* Run's entry, under a.mu: the call is accepted only in state idle; an
\* accepted call stores the goal and makes the state running.
RunEntry(s, oldGoal, g) ==
    IF s # StateIdle
      THEN [accepted |-> FALSE, state |-> s, goal |-> oldGoal]
      ELSE [accepted |-> TRUE, state |-> StateRunning, goal |-> g]

\* A loop head whose condition is i <= max.
LoopTopOffByOne(i, max, ctxDone) ==
    IF ~(i <= max) THEN "exhaust"
    ELSE IF ctxDone THEN "cancel"
    ELSE "step"

\* The head of Run's loop: the loop condition, then the non-blocking select
\* on ctx.Done().
LoopTop(i, max, ctxDone) ==
    IF ~(i < max) THEN "exhaust"
    ELSE IF ctxDone THEN "cancel"
    ELSE "step"

\* A check that knows done only.
TerminalCheckDoneOnly(a) == IF a.Type = ActionDone THEN "done" ELSE "execute"

\* A check that knows failed only.
TerminalCheckFailedOnly(a) == IF a.Type = ActionFailed THEN "failed" ELSE "execute"

\* step's check for the terminal actions, after GetAction has returned.
TerminalCheck(a) ==
    IF a.Type = ActionDone THEN "done"
    ELSE IF a.Type = ActionFailed THEN "failed"
    ELSE "execute"

\* A deferred function that leaves the state as it finds it.
FinalizeKeepsState(s) == s

\* Run's deferred function, under a.mu.
Finalize(s) == IF s = StateRunning THEN StateStopped ELSE s

\* Agent.Stop, under a.mu.
StopState(s) == IF s = StateRunning THEN StateStopped ELSE s

NoCalls == [observe |-> 0, oracle |-> 0, execute |-> 0]

\* The callers whose Run call was accepted.
Accepted == {t \in Threads : pc[t] # "idle" /\ ret[t].kind # "not idle"}

\* The callers inside Run's loop.
InLoop == {t \in Threads : pc[t] \notin {"idle", "done"}}

\* Where the run is: the position of the caller inside the loop.
Phase == IF InLoop = {} THEN "" ELSE pc[CHOOSE t \in InLoop : TRUE]

(***************************************************************************)
(* The terminal UI (package ui): views, messages, the update channel and   *)
(* the agents that startAgent creates.                                     *)
(***************************************************************************)
ViewInput == "input"
ViewRunning == "running"
ViewComplete == "complete"

\* The capacity of updateCh.  The program makes the channel with capacity
\* 100; the model keeps the capacity within the largest budget, so that a
\* run can fill the buffer.
UpdateChCap == 1

\* The agents startAgent creates, in the order it creates them.
AgentOrder == <<"a1", "a2">>

Agents == {AgentOrder[i] : i \in 1..Len(AgentOrder)}

\* The goal typed into the input view.
TypedGoal == "open notepad"

\* A message on updateCh.  From and Seq stand for the identity of the value
\* the message carries (the agent that made it and, for an executed action,
\* its position in that agent's history): the messages hold pointers to the
\* Action and the Result of their step.
Msg(kind, from, seq, act, res, success, message, err) ==
    [Kind |-> kind, From |-> from, Seq |-> seq, Action |-> act, Result |-> res,
     Success |-> success, Message |-> message, Error |-> err]

NoMsg == Msg("", "", 0, ZeroAction, NoResult, FALSE, "", NotReturned)

ActionExecutedMsg(from, seq, act, res) ==
    Msg("ActionExecutedMsg", from, seq, act, res, FALSE, "", NotReturned)

AgentDoneMsg(from, success, message) ==
    Msg("AgentDoneMsg", from, 0, ZeroAction, NoResult, success, message, NotReturned)

AgentErrorMsg(from, err) ==
    Msg("AgentErrorMsg", from, 0, ZeroAction, NoResult, FALSE, "", err)

\* A send without a default case: it blocks while the buffer is full and
\* nobody receives.
BlockingSend(ch, w, d, msg) ==
    IF w > 0
      THEN [ch |-> ch, waiting |-> w - 1, delivered |-> d \cup {msg}, sent |-> TRUE,
            blocked |-> FALSE]
    ELSE IF Len(ch) < UpdateChCap
      THEN [ch |-> Append(ch, msg), waiting |-> w, delivered |-> d, sent |-> TRUE,
            blocked |-> FALSE]
    ELSE [ch |-> ch, waiting |-> w, delivered |-> d, sent |-> FALSE, blocked |-> TRUE]

\* select { case updateCh <- msg: default: } on a channel with buffer ch, w
\* receivers blocked on it and the messages d already received: a blocked
\* receiver takes the message at once, otherwise it goes into the buffer if
\* there is room, otherwise the default case runs and the message is gone.
\* The statement never blocks.
SelectSend(ch, w, d, msg) ==
    IF w > 0
      THEN [ch |-> ch, waiting |-> w - 1, delivered |-> d \cup {msg}, sent |-> TRUE,
            blocked |-> FALSE]
    ELSE IF Len(ch) < UpdateChCap
      THEN [ch |-> Append(ch, msg), waiting |-> w, delivered |-> d, sent |-> TRUE,
            blocked |-> FALSE]
    ELSE [ch |-> ch, waiting |-> w, delivered |-> d, sent |-> FALSE, blocked |-> FALSE]

\* waitForUpdate, run by the goroutine of the command: <-m.updateCh takes the
\* oldest buffered message, or blocks until one is sent.
Receive(ch, w, d) ==
    IF ch # <<>>
      THEN [ch |-> Tail(ch), waiting |-> w, delivered |-> d \cup {Head(ch)}]
      ELSE [ch |-> ch, waiting |-> w + 1, delivered |-> d]

\* The message the goroutine of startAgent sends after Run has returned err
\* (lines 331-352), NoMsg when it sends none.
CompletionMsg(from, s, res, err, ctxDone) ==
    CASE s = StateCompleted -> AgentDoneMsg(from, TRUE, res)
      [] s = StateFailed -> AgentDoneMsg(from, FALSE, res)
      [] s = StateStopped -> NoMsg
      [] OTHER -> IF err # NilError /\ ~ctxDone THEN AgentErrorMsg(from, err) ELSE NoMsg

\* An agent startAgent has not created yet, and the agent agent.New returns
\* together with its goroutine (about to call Run) and its context.  sends
\* lists the sends on updateCh the goroutine has attempted, each with whether
\* the channel took the message; sentAtCancel is how many of them it had
\* attempted when the cancel function of its context was called.
Unborn ==
    [pc |-> "unborn", state |-> StateIdle, result |-> "", goal |-> "", history |-> <<>>,
     ctxDone |-> FALSE, iter |-> 0, nextAction |-> ZeroAction, execResult |-> NoResult,
     err |-> NotReturned, sends |-> <<>>, sentAtCancel |-> 0]

NewAgent == [Unborn EXCEPT !.pc = "run"]

\* The agent startAgent creates next.
Started == {a \in Agents : agents[a].pc # "unborn"}

NextAgent == AgentOrder[Cardinality(Started) + 1]

\* ui.New with a loaded configuration: the input view, an empty channel, no
\* agent.
NoRun ==
    /\ view = ViewInput
    /\ finalStatus = ""
    /\ finalMessage = ""
    /\ actionHistory = <<>>
    /\ iterationNum = 0
    /\ agentCancel = ""
    /\ updateCh = <<>>
    /\ waiting = 0
    /\ delivered = {}
    /\ agents = [a \in Agents |-> Unborn]
    /\ processed = <<>>

\* The two orders in which a build may evaluate the operands of
\* "return m, m.startAgent(goal)".
EvalOrders == {"call first", "operand first"}

\* No terminal UI: the agent is driven directly.
NoUI == evalOrder = "call first" /\ NoRun

(***************************************************************************)
(* The state after agent.New(cfg): the configuration is any the bounds     *)
(* allow (a positive budget, as DefaultConfig and the -max-iter flag give), *)
(* no callback is set, nothing has run.                                    *)
(***************************************************************************)
\* No Action value is under validation.
NoSubject ==
    /\ subject = ZeroAction
    /\ submitted = ZeroAction
    /\ verdicts = <<>>

\* runHeadless has not printed the result of the run.
NotReported == [line |-> "", exit |-> -1]

\* The goroutines that use the agent's accessors: the callers of Run, one
\* that calls Stop and one that calls State() and then Result().
Stopper == "stopper"

Reader == "reader"

Goroutines == Threads \cup {Stopper, Reader}

\* The zero sync.RWMutex.
Unlocked == [writer |-> "", readers |-> {}]

\* A goroutine's position: the method it is in, the critical section it is
\* at, and where it stands to that section ("lock": about to acquire a.mu,
\* "body": inside, "unlock": about to release; "" outside any section).
Position(method, section, phase) == [method |-> method, section |-> section, phase |-> phase]

NotCalled == Position("", "", "")

Returned == Position("", "", "returned")

\* Nothing read yet.
NothingSeen == [state |-> "", result |-> "", done |-> FALSE]

\* NewHistory: make([]Entry, 0), a slice of length and capacity 0.  arrays
\* are the backing arrays allocated so far, ptr the index of the one the
\* slice header points to.
NewHistory == [ptr |-> 1, len |-> 0, cap |-> 0, arrays |-> <<<<>>>>]

\* The words of a slice header.
Words == {"ptr", "len", "cap"}

\* The loop goroutine is not inside Add; header is the slice header an Add
\* is storing and todo the words of it not stored yet.
NotAdding == [pc |-> "idle", header |-> [ptr |-> 1, len |-> 0, cap |-> 0], todo |-> {}]

\* The supervising goroutine is not inside a method of History; inside one,
\* got are the words of h.entries it has loaded and todo those it has yet to
\* load, overlap whether a load was made while an Add was under way.
NotViewing ==
    [pc |-> "idle", method |-> "", got |-> [ptr |-> 1, len |-> 0, cap |-> 0], todo |-> {},
     overlap |-> FALSE]

\* No reply text.
NoText == <<>>

\* agent.New: the fields of the new Agent, and nothing called yet.
Fresh ==
    /\ report = NotReported
    /\ prompts = <<>>
    /\ responseText = NoText
    /\ parsed = <<>>
    /\ slice = NewHistory
    /\ adding = NotAdding
    /\ viewing = NotViewing
    /\ views = <<>>
    /\ mu = Unlocked
    /\ at = [g \in Goroutines |-> NotCalled]
    /\ seen = NothingSeen
    /\ unguarded = {}
    /\ onAction = FALSE
    /\ state = StateIdle
    /\ result = ""
    /\ goal = ""
    /\ history = <<>>
    /\ cancelled = FALSE
    /\ pc = [t \in Threads |-> "idle"]
    /\ iter = [t \in Threads |-> 0]
    /\ nextAction = [t \in Threads |-> ZeroAction]
    /\ execResult = [t \in Threads |-> NoResult]
    /\ pending = [t \in Threads |-> NotReturned]
    /\ ret = [t \in Threads |-> NotReturned]
    /\ calls = [t \in Threads |-> NoCalls]
    /\ observed = <<>>
    /\ decided = <<>>
    /\ executed = <<>>
    /\ results = <<>>
    /\ effected = <<>>
    /\ notified = <<>>
    /\ cancelAt = [raised |-> FALSE, observations |-> 0, executed |-> 0, state |-> "",
                   phase |-> ""]

Init ==
    /\ maxIterations \in 1..MaxBudget
    /\ requireAbs \in BOOLEAN
    /\ Fresh
    /\ NoSubject
    /\ NoUI

config == <<maxIterations, requireAbs>>

locals == <<iter, nextAction, execResult>>

logs == <<calls, observed, decided, executed, results, effected, notified>>

\* Agent.OnAction: sets the callback.
OnAction ==
    /\ ~onAction
    /\ \A t \in Threads : pc[t] = "idle"
    /\ onAction' = TRUE
    /\ UNCHANGED <<others, config, state, result, goal, history, cancelled, pc, locals,
                   pending, ret, logs, cancelAt>>

\* Thread t calls Agent.Run(ctx, g): lines 49-56.  Both drivers (runHeadless,
\* Model.startAgent) call OnAction on the new agent before they call Run.
Run(t, g) ==
    /\ pc[t] = "idle"
    /\ onAction
    /\ LET e == RunEntry(state, goal, g)
       IN  /\ state' = e.state
           /\ goal' = e.goal
           /\ IF e.accepted
                THEN /\ pc' = [pc EXCEPT ![t] = "top"]
                     /\ UNCHANGED ret
                ELSE /\ pc' = [pc EXCEPT ![t] = "done"]
                     /\ ret' = [ret EXCEPT ![t] = NotIdleError(state)]
    /\ UNCHANGED <<others, config, onAction, result, history, cancelled, locals, pending,
                   logs, cancelAt>>

\* The head of the loop: lines 66-74.
Top(t) ==
    /\ pc[t] = "top"
    /\ LET b == LoopTop(iter[t], maxIterations, cancelled)
       IN  CASE b = "exhaust" ->
                  /\ pc' = [pc EXCEPT ![t] = "exhaust"]
                  /\ UNCHANGED <<state, pending>>
             [] b = "cancel" ->
                  /\ state' = StateStopped
                  /\ pending' = [pending EXCEPT ![t] = ContextError]
                  /\ pc' = [pc EXCEPT ![t] = "defer"]
             [] OTHER ->
                  /\ pc' = [pc EXCEPT ![t] = "observe"]
                  /\ UNCHANGED <<state, pending>>
    /\ UNCHANGED <<others, config, onAction, result, goal, history, cancelled, locals, ret,
                   logs, cancelAt>>

\* step: capture.CaptureAndEncode(), lines 98-101.
Observe(t) ==
    /\ pc[t] = "observe"
    /\ calls' = [calls EXCEPT ![t].observe = @ + 1]
    /\ \E ok \in BOOLEAN :
         /\ observed' = Append(observed, ok)
         /\ IF ok
              THEN /\ pc' = [pc EXCEPT ![t] = "decide"]
                   /\ UNCHANGED pending
              ELSE /\ pc' = [pc EXCEPT ![t] = "defer"]
                   /\ pending' = [pending EXCEPT ![t] = CaptureError]
    /\ UNCHANGED <<others, config, onAction, state, result, goal, history, cancelled, locals,
                   ret, decided, executed, results, effected, notified, cancelAt>>

\* step: a.client.GetAction(ctx, a.goal, screenshot, a.history.GetLLMHistory()),
\* lines 104-107.  GetLLMHistory copies the entries into a new slice.
Decide(t) ==
    /\ pc[t] = "decide"
    /\ calls' = [calls EXCEPT ![t].oracle = @ + 1]
    /\ \E o \in OracleOutcomes :
         LET reply == MessagesNew(cancelled, o)
             r == GetAction(reply)
         IN  /\ decided' = Append(decided, [goal |-> goal,
                                            history |-> GetLLMHistory(history),
                                            reply |-> reply, result |-> r,
                                            validations |-> Validations(reply)])
             /\ IF r.err # NoError
                  THEN /\ pc' = [pc EXCEPT ![t] = "defer"]
                       /\ pending' = [pending EXCEPT ![t] = LLMError(r.err)]
                       /\ UNCHANGED nextAction
                  ELSE /\ pc' = [pc EXCEPT ![t] = "check"]
                       /\ nextAction' = [nextAction EXCEPT ![t] = r.action]
                       /\ UNCHANGED pending
    /\ UNCHANGED <<others, config, onAction, state, result, goal, history, cancelled, iter,
                   execResult, ret, observed, executed, results, effected, notified,
                   cancelAt>>

\* step: the terminal actions, lines 110-124, and Run's "if done" return.
Check(t) ==
    /\ pc[t] = "check"
    /\ LET b == TerminalCheck(nextAction[t])
       IN  CASE b = "done" ->
                  /\ state' = StateCompleted
                  /\ result' = nextAction[t].Summary
                  /\ pending' = [pending EXCEPT ![t] = NilError]
                  /\ pc' = [pc EXCEPT ![t] = "defer"]
             [] b = "failed" ->
                  /\ state' = StateFailed
                  /\ result' = nextAction[t].Reason
                  /\ pending' = [pending EXCEPT ![t] = NilError]
                  /\ pc' = [pc EXCEPT ![t] = "defer"]
             [] OTHER ->
                  /\ pc' = [pc EXCEPT ![t] = "execute"]
                  /\ UNCHANGED <<state, result, pending>>
    /\ UNCHANGED <<others, config, onAction, goal, history, cancelled, locals, ret, logs,
                   cancelAt>>

\* step: a.executor.Execute(nextAction), line 127.
ExecuteAction(t) ==
    /\ pc[t] = "execute"
    /\ \E fs \in FsOutcomes :
         /\ execResult' = [execResult EXCEPT ![t] = Execute(nextAction[t], requireAbs, fs)]
         /\ effected' = Append(effected, Effectors(nextAction[t], requireAbs, fs))
    /\ executed' = Append(executed, nextAction[t])
    /\ results' = Append(results, execResult'[t])
    /\ calls' = [calls EXCEPT ![t].execute = @ + 1]
    /\ pc' = [pc EXCEPT ![t] = "record"]
    /\ UNCHANGED <<others, config, onAction, state, result, goal, history, cancelled, iter,
                   nextAction, pending, ret, observed, decided, notified, cancelAt>>

\* step: a.history.Add(action.ToHistoryEntry(nextAction, result)), lines 130-131.
Record(t) ==
    /\ pc[t] = "record"
    /\ history' = HistoryAdd(history, ToHistoryEntry(nextAction[t], execResult[t]))
    /\ pc' = [pc EXCEPT ![t] = "notify"]
    /\ UNCHANGED <<others, config, onAction, state, result, goal, cancelled, locals, pending,
                   ret, logs, cancelAt>>

\* step: the callback, lines 134-138; step returns (false, nil).
Notify(t) ==
    /\ pc[t] = "notify"
    /\ notified' = IF onAction
                     THEN Append(notified, [Action |-> nextAction[t],
                                            Result |-> execResult[t]])
                     ELSE notified
    /\ pc' = [pc EXCEPT ![t] = "sleep"]
    /\ UNCHANGED <<others, config, onAction, state, result, goal, history, cancelled, locals,
                   pending, ret, calls, observed, decided, executed, results, effected,
                   cancelAt>>

\* time.Sleep(a.config.StabilizationDelay()) and i++, lines 85-86; the
\* step's locals are gone.
Sleep(t) ==
    /\ pc[t] = "sleep"
    /\ iter' = [iter EXCEPT ![t] = @ + 1]
    /\ nextAction' = [nextAction EXCEPT ![t] = ZeroAction]
    /\ execResult' = [execResult EXCEPT ![t] = NoResult]
    /\ pc' = [pc EXCEPT ![t] = "top"]
    /\ UNCHANGED <<others, config, onAction, state, result, goal, history, cancelled, pending,
                   ret, logs, cancelAt>>

\* The loop has ended: lines 88-92.
Exhaust(t) ==
    /\ pc[t] = "exhaust"
    /\ state' = StateFailed
    /\ result' = MaxIterationsResult
    /\ pending' = [pending EXCEPT ![t] = MaxIterationsError(maxIterations)]
    /\ pc' = [pc EXCEPT ![t] = "defer"]
    /\ UNCHANGED <<others, config, onAction, goal, history, cancelled, locals, ret, logs,
                   cancelAt>>

\* The deferred function, lines 58-64, and Run's return.
Deferred(t) ==
    /\ pc[t] = "defer"
    /\ state' = Finalize(state)
    /\ ret' = [ret EXCEPT ![t] = pending[t]]
    /\ pc' = [pc EXCEPT ![t] = "done"]
    /\ UNCHANGED <<others, config, onAction, result, goal, history, cancelled, locals, pending,
                   logs, cancelAt>>

\* Agent.Stop(), from any thread at any moment.
Stop ==
    /\ state' = StopState(state)
    /\ UNCHANGED <<others, config, onAction, result, goal, history, cancelled, pc, locals,
                   pending, ret, logs, cancelAt>>

\* The context's cancel function is called (a signal, or the UI's stop key).
Cancel ==
    /\ ~cancelled
    /\ cancelled' = TRUE
    /\ cancelAt' = [raised |-> TRUE, observations |-> Len(observed),
                    executed |-> Len(executed), state |-> state, phase |-> Phase]
    /\ UNCHANGED <<others, config, onAction, state, result, goal, history, pc, locals,
                   pending, ret, logs>>

Next ==
    \/ OnAction
    \/ \E t \in Threads : Run(t, GoalOf[t])
    \/ \E t \in Threads : Top(t)
    \/ \E t \in Threads : Observe(t)
    \/ \E t \in Threads : Decide(t)
    \/ \E t \in Threads : Check(t)
    \/ \E t \in Threads : ExecuteAction(t)
    \/ \E t \in Threads : Record(t)
    \/ \E t \in Threads : Notify(t)
    \/ \E t \in Threads : Sleep(t)
    \/ \E t \in Threads : Exhaust(t)
    \/ \E t \in Threads : Deferred(t)
    \/ Stop
    \/ Cancel

Spec == Init /\ [][Next]_vars

(***************************************************************************)
(* Action.Validate on its own: a caller holds one Action value and calls   *)
(* Validate on it, possibly more than once.  The value is any combination  *)
(* of a type tag with the fields Validate reads or writes set or omitted,  *)
(* and with the remaining fields all set or all omitted.                   *)
(***************************************************************************)
MaxValidations == 2

\* The fields Validate neither reads nor writes for any kind but the one
\* they belong to, all set.
Filled ==
    [ZeroAction EXCEPT !.X = 10, !.Y = 20, !.Double = TRUE, !.Text = "hello",
                       !.Key = "ctrl+s", !.Path = "/tmp/notes.txt", !.Content = "text",
                       !.Summary = "all done", !.Reason = "no window"]

ValidateInputs ==
    {[base EXCEPT !.Type = k, !.Button = b, !.Direction = d, !.Amount = n, !.Ms = ms] :
        base \in {ZeroAction, Filled},
        k \in ActionKinds \cup {"drag"},
        b \in {"", "right"},
        d \in {"", "down"},
        n \in {0, 5},
        ms \in {0, 1000}}

\* The agent exists but nothing is called on it.
AgentAtRest ==
    /\ maxIterations = MaxBudget
    /\ requireAbs = TRUE
    /\ Fresh

ValidateInit ==
    /\ AgentAtRest
    /\ NoUI
    /\ subject \in ValidateInputs
    /\ submitted = subject
    /\ verdicts = <<>>

agent == <<config, onAction, state, result, goal, history, cancelled, pc, locals,
           pending, ret, logs, cancelAt>>

\* a.Validate(): the defaults are written through the pointer receiver.
CallValidate ==
    /\ Len(verdicts) < MaxValidations
    /\ subject' = Validate(subject).action
    /\ verdicts' = Append(verdicts, Validate(subject).err)
    /\ UNCHANGED <<submitted, agent, ui, guard, snapshot, parsing, report, prompts>>

ValidateNext == CallValidate

ValidateSpec == ValidateInit /\ [][ValidateNext]_vars

(***************************************************************************)
(* Executor.Execute on its own: a caller holds an Executor with either     *)
(* policy and one Action value of any kind, validated or not, and calls    *)
(* Execute on it; the file system does what it can with each call.         *)
(***************************************************************************)
MaxExecutions == 2

ExecuteInputs ==
    {[base EXCEPT !.Type = k, !.Key = key, !.Path = path] :
        base \in {ZeroAction, Filled},
        k \in ActionKinds \cup {"", "drag"},
        key \in {"enter"} \cup Combos,
        path \in {""} \cup RelativePaths \cup AbsolutePaths}

\* What the file system can make of a call on path: no file has the empty
\* name, so os.ReadFile("") and os.WriteFile("") fail.
FileOutcomesFor(path) == IF path = "" THEN {"io"} ELSE FileOutcomes

ExecuteInit ==
    /\ maxIterations = MaxBudget
    /\ requireAbs \in BOOLEAN
    /\ Fresh
    /\ NoUI
    /\ subject \in ExecuteInputs
    /\ submitted = subject
    /\ verdicts = <<>>

\* e.Execute(&subject).
CallExecute ==
    /\ Len(executed) < MaxExecutions
    /\ \E fs \in FileOutcomesFor(subject.Path) :
         /\ results' = Append(results, Execute(subject, requireAbs, fs))
         /\ effected' = Append(effected, Effectors(subject, requireAbs, fs))
    /\ executed' = Append(executed, subject)
    /\ UNCHANGED <<config, onAction, state, result, goal, history, cancelled, pc, locals,
                   pending, ret, calls, observed, decided, notified, cancelAt, others>>

ExecuteNext == CallExecute

ExecuteSpec == ExecuteInit /\ [][ExecuteNext]_vars

(***************************************************************************)
(* BuildUserPrompt on its own: a history of executed actions, each with    *)
(* or without an error, is rendered for the oracle.                        *)
(***************************************************************************)
MaxEntries == 2

\* An ActionRecord of the given kind (ToHistoryEntry copies the fields).
Recorded(kind) == [ZeroAction EXCEPT !.Type = kind, !.Text = <<>>, !.Path = <<>>]

\* Typed texts: short, of the preview length, longer, and one with a verb in
\* it.
TypedTexts ==
    {Chars(n, "x") : n \in {3, PreviewLen, PreviewLen + 1}} \cup {<<"1", "0", "0", "%s">>}

\* Paths: short and longer than the preview length.
PromptPaths == {<<"/", "a">>, <<"/">> \o Chars(PreviewLen + 1, "p")}

PromptActions ==
    {[Recorded("click") EXCEPT !.X = 10, !.Y = 20, !.Button = b, !.Double = (b = "right")] :
        b \in {"left", "right"}}
    \cup {[Recorded("type") EXCEPT !.Text = t] : t \in TypedTexts}
    \cup {[Recorded("key") EXCEPT !.Key = "ctrl+s"]}
    \cup {[Recorded("scroll") EXCEPT !.Direction = "down", !.Amount = DefaultAmount]}
    \cup {[Recorded(k) EXCEPT !.Path = q, !.Content = "text"] :
            k \in {"file_read", "file_write"}, q \in PromptPaths}
    \cup {[Recorded("wait") EXCEPT !.Ms = DefaultMs]}

PromptErrors == {<<>>, <<"failed to read file">>}

PromptEntries == [Action : PromptActions, Error : PromptErrors]

RECURSIVE Histories(_)
Histories(n) ==
    IF n = 0 THEN {<<>>}
    ELSE LET shorter == Histories(n - 1)
         IN  shorter \cup {Append(h, e) : h \in shorter, e \in PromptEntries}

PromptInit ==
    /\ AgentAtRest
    /\ NoSubject
    /\ NoUI

\* BuildUserPrompt(g, h) with a goal and a history of up to MaxEntries
\* entries; lines holds formatHistoryEntry(i + 1, entry) for each entry.
CallBuildUserPrompt ==
    /\ prompts = <<>>
    /\ \E g \in {GoalOf[t] : t \in Threads}, h \in Histories(MaxEntries) :
         prompts' = Append(prompts,
                           [goal |-> g, history |-> h,
                            lines |-> [i \in 1..Len(h) |-> formatHistoryEntry(i, h[i])],
                            prompt |-> BuildUserPrompt(g, h)])
    /\ UNCHANGED <<agent, protocol, ui, guard, snapshot, parsing, report>>

PromptNext == CallBuildUserPrompt

PromptSpec == PromptInit /\ [][PromptNext]_vars

(***************************************************************************)
(* The headless driver (runHeadless in cmd/golemming/main.go): it creates  *)
(* one agent, sets the callback, runs the goal with a context that a       *)
(* signal cancels, then prints the result according to the agent's state.  *)
(***************************************************************************)
\* The goroutine of runHeadless.
Main == "t1"

\* The switch on ag.State() after Run has returned err, lines 110-124: the
\* line printed and the exit status (0 when runHeadless returns).
HeadlessReport(s, err, res) ==
    CASE s = StateCompleted -> [line |-> "Completed: " \o res, exit |-> 0]
      [] s = StateFailed -> [line |-> "Failed: " \o res, exit |-> 1]
      [] s = StateStopped -> [line |-> "Stopped by user", exit |-> 0]
      [] OTHER -> IF err # NilError
                    THEN [line |-> "Error: " \o err.kind, exit |-> 1]
                    ELSE [line |-> "", exit |-> 0]

\* Lines 107-124, after ag.Run has returned.
PrintResult ==
    /\ pc[Main] = "done"
    /\ report = NotReported
    /\ report' = HeadlessReport(state, ret[Main], result)
    /\ UNCHANGED <<agent, protocol, ui, guard, snapshot, parsing, prompts>>

HeadlessNext ==
    \/ OnAction
    \/ Run(Main, GoalOf[Main])
    \/ Top(Main)
    \/ Observe(Main)
    \/ Decide(Main)
    \/ Check(Main)
    \/ ExecuteAction(Main)
    \/ Record(Main)
    \/ Notify(Main)
    \/ Sleep(Main)
    \/ Exhaust(Main)
    \/ Deferred(Main)
    \/ Cancel
    \/ PrintResult

HeadlessSpec == Init /\ [][HeadlessNext]_vars

(***************************************************************************)
(* The two ways an Action gets to Executor.Execute: through step in a run  *)
(* of the agent, or by a direct call on an Action value (for done and      *)
(* failed the case Execute is defensive about).  A behaviour is a run of   *)
(* the agent (no Action value is held outside it) or a series of direct    *)
(* calls.                                                                  *)
(***************************************************************************)
DispatchInit == Init \/ ExecuteInit

DispatchNext ==
    \/ subject = ZeroAction /\ Next
    \/ subject # ZeroAction /\ ExecuteNext

DispatchSpec == DispatchInit /\ [][DispatchNext]_vars

(***************************************************************************)
(* ParseAction on its own: an Action value is encoded to its wire form,    *)
(* the text reaches ParseAction bare or wrapped the way a language model   *)
(* wraps its replies (a code fence, prose before and after).               *)
(***************************************************************************)
MaxParses == 1

\* The actions Validate accepts, as it leaves them.
WellFormedActions ==
    {Validate(d).action : d \in {x \in ValidateInputs : Validate(x).err = NoValidationError}}

ParseInputs == ValidateInputs \cup WellFormedActions \cup RawDecisions

\* What may stand before and after the object: nothing, white space, prose,
\* prose with braces of its own.
ProseBefore ==
    {<<>>, <<Space>>, <<Tok("Sure"), Space>>,
     <<Tok("use"), OpenBrace, Tok("name"), CloseBrace, Space>>}

ProseAfter ==
    {<<>>, <<Space>>, <<Space, Tok("Done")>>,
     <<Space, Tok("see"), OpenBrace, Tok("docs"), CloseBrace>>}

Fences == {"", "plain", "json"}

Wrappings == [before : ProseBefore, fence : Fences, after : ProseAfter]

Bare == [before |-> <<>>, fence |-> "", after |-> <<>>]

\* The text of object in the wrapping w.
Wrap(object, w) ==
    w.before
    \o (CASE w.fence = "json" -> <<Fence, Tok("json"), Space>>
           [] w.fence = "plain" -> <<Fence, Space>>
           [] OTHER -> <<>>)
    \o object
    \o (IF w.fence # "" THEN <<Space, Fence>> ELSE <<>>)
    \o w.after

ParseInit ==
    /\ AgentAtRest
    /\ NoUI
    /\ subject \in ParseInputs
    /\ submitted = subject
    /\ verdicts = <<>>

\* json.Marshal(subject), and the reply the text arrives in.
Reply(w) ==
    /\ responseText = NoText
    /\ responseText' = Wrap(Marshal(subject), w)
    /\ UNCHANGED <<agent, protocol, ui, guard, snapshot, report, prompts, parsed>>

\* ParseAction(responseText).
CallParseAction ==
    /\ responseText # NoText
    /\ Len(parsed) < MaxParses
    /\ parsed' = Append(parsed, [text |-> responseText,
                                 cleaned |-> cleanResponse(responseText),
                                 result |-> ParseText(responseText)])
    /\ UNCHANGED <<agent, protocol, ui, guard, snapshot, report, prompts, responseText>>

ParseNext ==
    \/ \E w \in Wrappings : Reply(w)
    \/ CallParseAction

ParseSpec == ParseInit /\ [][ParseNext]_vars

(***************************************************************************)
(* The terminal UI driving agents.  The user's keys start a run (enter in  *)
(* the input view), stop it (esc or ctrl+c in the running view) and go     *)
(* back to the input view (enter or esc in the complete view).  Every run  *)
(* has its own Agent, context and goroutine; all runs share updateCh.  A   *)
(* waitForUpdate command runs in a goroutine of its own, which makes its   *)
(* receive as soon as the command is returned and hands the message it got *)
(* to Update; two such goroutines hand over in either order.               *)
(***************************************************************************)
\* What the oracle replies to an agent of the UI: a failed request, a click,
\* done, failed.
UIDecisions ==
    {[ZeroAction EXCEPT !.Type = ActionClick, !.X = 10, !.Y = 20],
     [ZeroAction EXCEPT !.Type = ActionDone, !.Summary = "all done"],
     [ZeroAction EXCEPT !.Type = ActionFailed, !.Reason = "no window"]}

UIOracleOutcomes ==
    {RequestFailed} \cup {[api |-> "ok", text |-> [json |-> TRUE, obj |-> d]] : d \in UIDecisions}

UIInit ==
    /\ maxIterations \in 1..MaxBudget
    /\ requireAbs = TRUE
    /\ Fresh
    /\ NoSubject
    /\ evalOrder \in EvalOrders
    /\ NoRun

model == <<view, finalStatus, finalMessage, actionHistory, iterationNum, agentCancel>>

channel == <<updateCh, waiting, delivered>>

\* The agent record after the statements of one step.
Set(a, rec) == agents' = [agents EXCEPT ![a] = rec]

\* handleEnter in the input view, lines 278-294, with startAgent, lines
\* 309-357: a new context, a new agent with the channel-sending callback, the
\* goroutine that will call Run, and the waitForUpdate command.  The Model
\* that is returned holds the new cancel function only if the build calls
\* startAgent before it copies m.
HandleStart ==
    /\ view = ViewInput
    /\ Started # Agents
    /\ view' = ViewRunning
    /\ actionHistory' = <<>>
    /\ iterationNum' = 0
    /\ agentCancel' = IF evalOrder = "call first" THEN NextAgent ELSE agentCancel
    /\ Set(NextAgent, NewAgent)
    /\ LET r == Receive(updateCh, waiting, delivered)
       IN  /\ updateCh' = r.ch
           /\ waiting' = r.waiting
           /\ delivered' = r.delivered
    /\ UNCHANGED <<agent, protocol, guard, snapshot, parsing, report, prompts, evalOrder,
                   finalStatus, finalMessage, processed>>

\* handleKey for "esc" or "ctrl+c" in the running view with a cancel
\* function, lines 185-192 and 211-217.
HandleStop ==
    /\ view = ViewRunning
    /\ agentCancel # ""
    /\ Set(agentCancel, [agents[agentCancel] EXCEPT
                            !.ctxDone = TRUE,
                            !.sentAtCancel = Len(agents[agentCancel].sends)])
    /\ view' = ViewComplete
    /\ finalStatus' = "stopped"
    /\ finalMessage' = "Stopped by user"
    /\ UNCHANGED <<agent, protocol, guard, snapshot, parsing, report, prompts, evalOrder,
                   actionHistory, iterationNum, agentCancel,
                   channel, processed>>

\* handleKey for "esc" and handleEnter in the complete view, lines 218-226
\* and 296-303.
HandleBack ==
    /\ view = ViewComplete
    /\ view' = ViewInput
    /\ actionHistory' = <<>>
    /\ iterationNum' = 0
    /\ UNCHANGED <<agent, protocol, guard, snapshot, parsing, report, prompts, evalOrder,
                   finalStatus, finalMessage, agentCancel,
                   channel, agents, processed>>

\* Update on a message that a waitForUpdate command has received, lines
\* 144-168.  After an ActionExecutedMsg it returns waitForUpdate again.
Update(msg) ==
    /\ msg \in delivered
    /\ processed' = Append(processed, msg)
    /\ CASE msg.Kind = "ActionExecutedMsg" ->
              /\ actionHistory' = Append(actionHistory, msg)
              /\ iterationNum' = iterationNum + 1
              /\ LET r == Receive(updateCh, waiting, delivered \ {msg})
                 IN  /\ updateCh' = r.ch
                     /\ waiting' = r.waiting
                     /\ delivered' = r.delivered
              /\ UNCHANGED <<view, finalStatus, finalMessage>>
         [] msg.Kind = "AgentDoneMsg" ->
              /\ view' = ViewComplete
              /\ finalStatus' = IF msg.Success THEN "completed" ELSE "failed"
              /\ finalMessage' = msg.Message
              /\ delivered' = delivered \ {msg}
              /\ UNCHANGED <<actionHistory, iterationNum, updateCh, waiting>>
         [] OTHER ->
              /\ view' = ViewComplete
              /\ finalStatus' = "error"
              /\ finalMessage' = msg.Error.kind
              /\ delivered' = delivered \ {msg}
              /\ UNCHANGED <<actionHistory, iterationNum, updateCh, waiting>>
    /\ UNCHANGED <<agent, protocol, guard, snapshot, parsing, report, prompts, evalOrder,
                   agentCancel, agents>>

\* The goroutine of agent a calls ag.Run(ctx, goal): Run's entry, lines 49-56.
AgentRun(a) ==
    /\ agents[a].pc = "run"
    /\ LET e == RunEntry(agents[a].state, agents[a].goal, TypedGoal)
       IN  Set(a, IF e.accepted
                    THEN [agents[a] EXCEPT !.state = e.state, !.goal = e.goal, !.pc = "top"]
                    ELSE [agents[a] EXCEPT !.err = NotIdleError(agents[a].state),
                                           !.pc = "returned"])
    /\ UNCHANGED <<agent, protocol, guard, snapshot, parsing, report, prompts, evalOrder,
                   model, channel, processed>>

\* The head of Run's loop, lines 66-74, with what follows it without a look
\* at the context or the channel: the end of the loop, lines 88-92, or the
\* observation of the step, lines 98-101.  The deferred function, lines
\* 58-64, runs when Run returns.
AgentTop(a) ==
    /\ agents[a].pc = "top"
    /\ LET b == LoopTop(agents[a].iter, maxIterations, agents[a].ctxDone)
       IN  CASE b = "exhaust" ->
                  Set(a, [agents[a] EXCEPT !.state = Finalize(StateFailed),
                                          !.result = MaxIterationsResult,
                                          !.err = MaxIterationsError(maxIterations),
                                          !.pc = "returned"])
             [] b = "cancel" ->
                  Set(a, [agents[a] EXCEPT !.state = Finalize(StateStopped),
                                          !.err = ContextError, !.pc = "returned"])
             [] OTHER ->
                  \E ok \in BOOLEAN :
                    Set(a, IF ok THEN [agents[a] EXCEPT !.pc = "decide"]
                           ELSE [agents[a] EXCEPT !.state = Finalize(@),
                                                  !.err = CaptureError, !.pc = "returned"])
    /\ UNCHANGED <<agent, protocol, guard, snapshot, parsing, report, prompts, evalOrder,
                   model, channel, processed>>

\* step: a.client.GetAction(ctx, ...), lines 104-107, with what follows it
\* without a look at the context or the channel: the terminal actions, lines
\* 110-124, or Execute and history.Add, lines 127-131.
AgentDecide(a) ==
    /\ agents[a].pc = "decide"
    /\ \E o \in UIOracleOutcomes :
         LET d == GetAction(MessagesNew(agents[a].ctxDone, o))
             act == d.action
             b == TerminalCheck(act)
             r == Execute(act, requireAbs, "ok")
         IN  Set(a, CASE d.err # NoError ->
                           [agents[a] EXCEPT !.state = Finalize(@), !.err = LLMError(d.err),
                                             !.pc = "returned"]
                      [] d.err = NoError /\ b = "done" ->
                           [agents[a] EXCEPT !.state = Finalize(StateCompleted),
                                             !.result = act.Summary, !.err = NilError,
                                             !.pc = "returned"]
                      [] d.err = NoError /\ b = "failed" ->
                           [agents[a] EXCEPT !.state = Finalize(StateFailed),
                                             !.result = act.Reason, !.err = NilError,
                                             !.pc = "returned"]
                      [] OTHER ->
                           [agents[a] EXCEPT
                              !.nextAction = act,
                              !.execResult = r,
                              !.history = HistoryAdd(@, ToHistoryEntry(act, r)),
                              !.pc = "notify"])
    /\ UNCHANGED <<agent, protocol, guard, snapshot, parsing, report, prompts, evalOrder,
                   model, channel, processed>>

\* step: the callback startAgent has set, lines 319-324 of model.go, called
\* at lines 134-136; then the stabilization sleep and i++, lines 85-86.
AgentNotify(a) ==
    /\ agents[a].pc = "notify"
    /\ LET msg == ActionExecutedMsg(a, Len(agents[a].history), agents[a].nextAction,
                                    agents[a].execResult)
           r == SelectSend(updateCh, waiting, delivered, msg)
       IN  /\ ~r.blocked
           /\ updateCh' = r.ch
           /\ waiting' = r.waiting
           /\ delivered' = r.delivered
           /\ Set(a, [agents[a] EXCEPT
                        !.sends = Append(@, [msg |-> msg, sent |-> r.sent]),
                        !.iter = @ + 1, !.nextAction = ZeroAction,
                        !.execResult = NoResult, !.pc = "top"])
    /\ UNCHANGED <<agent, protocol, guard, snapshot, parsing, report, prompts, evalOrder,
                   model, processed>>

\* The goroutine after Run has returned: ag.State() and the completion
\* message, lines 331-352 of model.go.
AgentComplete(a) ==
    /\ agents[a].pc = "returned"
    /\ LET msg == CompletionMsg(a, agents[a].state, agents[a].result, agents[a].err,
                                agents[a].ctxDone)
           r == SelectSend(updateCh, waiting, delivered, msg)
       IN  IF msg = NoMsg
             THEN /\ Set(a, [agents[a] EXCEPT !.pc = "exited"])
                  /\ UNCHANGED channel
             ELSE /\ ~r.blocked
                  /\ updateCh' = r.ch
                  /\ waiting' = r.waiting
                  /\ delivered' = r.delivered
                  /\ Set(a, [agents[a] EXCEPT
                               !.sends = Append(@, [msg |-> msg, sent |-> r.sent]),
                               !.pc = "exited"])
    /\ UNCHANGED <<agent, protocol, guard, snapshot, parsing, report, prompts, evalOrder,
                   model, processed>>

\* The steps of the goroutine of agent a.
AgentNext(a) ==
    \/ AgentRun(a)
    \/ AgentTop(a)
    \/ AgentDecide(a)
    \/ AgentNotify(a)
    \/ AgentComplete(a)

UINext ==
    \/ HandleStart
    \/ HandleStop
    \/ HandleBack
    \/ \E msg \in delivered : Update(msg)
    \/ \E a \in Agents : AgentNext(a)

UISpec == UIInit /\ [][UINext]_vars

\* The goroutine of every agent keeps running while it can take a step (the
\* observation and the oracle call return); nothing is assumed about the
\* user or about when Update handles a message.
UIFairSpec == UISpec /\ \A a \in Agents : WF_vars(AgentNext(a))

(***************************************************************************)
(* The agent's mutex, step by step.  Two goroutines call Run, one calls    *)
(* Stop and one calls State() and then Result(), each at any moment.  A    *)
(* goroutine acquires a.mu, makes the accesses of its critical section and *)
(* releases a.mu in steps of its own; what a method does outside its       *)
(* critical sections is a step of its own too.  An access made by a        *)
(* goroutine that does not hold a.mu is noted in unguarded.                *)
(***************************************************************************)
GuardInit ==
    /\ maxIterations \in 1..MaxBudget
    /\ requireAbs = TRUE
    /\ Fresh
    /\ NoSubject
    /\ NoUI

\* a.mu.Lock() and a.mu.RLock() can return.
CanLock == mu.writer = "" /\ mu.readers = {}

CanRLock == mu.writer = ""

\* Goroutine g holds a.mu, for writing or for reading.
Holds(g) == mu.writer = g \/ g \in mu.readers

\* The critical sections entered with RLock.
ReadSections == {"State", "Result"}

\* unguarded after goroutine g has made the accesses.
Noted(g, accesses) ==
    IF Holds(g) THEN unguarded
    ELSE unguarded \cup {[by |-> g, access |-> x] : x \in accesses}

\* The method each goroutine calls, and its first critical section.
FirstPosition(g) ==
    IF g \in Threads THEN Position("Run", "entry", "lock")
    ELSE IF g = Stopper THEN Position("Stop", "stop", "lock")
    ELSE Position("State", "State", "lock")

\* Goroutine g calls its method.
Enter(g) ==
    /\ at[g] = NotCalled
    /\ at' = [at EXCEPT ![g] = FirstPosition(g)]
    /\ UNCHANGED <<agent, protocol, ui, snapshot, parsing, report, prompts, mu, seen, unguarded>>

\* a.mu.Lock() or a.mu.RLock() returns.
Acquire(g) ==
    /\ at[g].phase = "lock"
    /\ IF at[g].section \in ReadSections
         THEN /\ CanRLock
              /\ mu' = [mu EXCEPT !.readers = @ \cup {g}]
         ELSE /\ CanLock
              /\ mu' = [mu EXCEPT !.writer = g]
    /\ at' = [at EXCEPT ![g].phase = "body"]
    /\ UNCHANGED <<agent, protocol, ui, snapshot, parsing, report, prompts, seen, unguarded>>

\* What the statements between Lock and Unlock do, by section: the new
\* values of the fields, the value Run will return, what the reader has
\* seen, the accesses made and the section as it is left.
Statements(g) ==
    LET sec == at[g].section
        keep == [state |-> state, result |-> result, goal |-> goal,
                 pending |-> NotReturned, seen |-> seen, accesses |-> {}, leaves |-> sec]
    IN  CASE sec = "entry" ->
               LET e == RunEntry(state, goal, GoalOf[g])
               IN  [keep EXCEPT !.state = e.state, !.goal = e.goal,
                                !.pending = IF e.accepted THEN NotReturned
                                            ELSE NotIdleError(state),
                                !.accesses = IF e.accepted THEN {"read state", "write state"}
                                             ELSE {"read state"},
                                !.leaves = IF e.accepted THEN "entered" ELSE "refused"]
          [] sec = "cancel" ->
               [keep EXCEPT !.state = StateStopped, !.pending = ContextError,
                            !.accesses = {"write state"}]
          [] sec = "done" ->
               [keep EXCEPT !.state = StateCompleted, !.result = nextAction[g].Summary,
                            !.pending = NilError,
                            !.accesses = {"write state", "write result"}]
          [] sec = "failed" ->
               [keep EXCEPT !.state = StateFailed, !.result = nextAction[g].Reason,
                            !.pending = NilError,
                            !.accesses = {"write state", "write result"}]
          [] sec = "exhaust" ->
               [keep EXCEPT !.state = StateFailed, !.result = MaxIterationsResult,
                            !.pending = MaxIterationsError(maxIterations),
                            !.accesses = {"write state", "write result"}]
          [] sec = "defer" ->
               [keep EXCEPT !.state = Finalize(state), !.pending = pending[g],
                            !.accesses = IF state = StateRunning
                                           THEN {"read state", "write state"}
                                           ELSE {"read state"}]
          [] sec = "stop" ->
               [keep EXCEPT !.state = StopState(state),
                            !.accesses = IF state = StateRunning
                                           THEN {"read state", "write state"}
                                           ELSE {"read state"}]
          [] sec = "State" ->
               [keep EXCEPT !.seen = [seen EXCEPT !.state = state],
                            !.accesses = {"read state"}]
          [] sec = "Result" ->
               [keep EXCEPT !.seen = [seen EXCEPT !.result = result, !.done = TRUE],
                            !.accesses = {"read result"}]

\* Goroutine g executes the statements of its critical section.
Section(g) ==
    /\ at[g].phase = "body"
    /\ LET x == Statements(g)
       IN  /\ state' = x.state
           /\ result' = x.result
           /\ goal' = x.goal
           /\ pending' = IF g \in Threads THEN [pending EXCEPT ![g] = x.pending] ELSE pending
           /\ seen' = x.seen
           /\ unguarded' = Noted(g, x.accesses)
           /\ at' = [at EXCEPT ![g] = Position(@.method, x.leaves, "unlock")]
    /\ UNCHANGED <<config, onAction, history, cancelled, pc, locals, ret, logs, cancelAt,
                   protocol, ui, snapshot, parsing, report, prompts, mu>>

\* Where goroutine g goes after the section it leaves.
AfterSection(g) ==
    LET sec == at[g].section
    IN  CASE sec = "entered" -> Position("Run", "", "top")
          [] sec = "refused" -> Position("Run", "", "report")
          [] sec \in {"cancel", "done", "failed", "exhaust"} -> Position("Run", "defer", "lock")
          [] sec = "State" -> Position("Result", "Result", "lock")
          [] OTHER -> Returned

\* a.mu.Unlock() or a.mu.RUnlock(); after the deferred function Run returns.
Release(g) ==
    /\ at[g].phase = "unlock"
    /\ mu' = IF mu.writer = g THEN [mu EXCEPT !.writer = ""]
             ELSE [mu EXCEPT !.readers = @ \ {g}]
    /\ at' = [at EXCEPT ![g] = AfterSection(g)]
    /\ ret' = IF at[g].section = "defer" THEN [ret EXCEPT ![g] = pending[g]] ELSE ret
    /\ UNCHANGED <<config, onAction, state, result, goal, history, cancelled, pc, locals,
                   pending, logs, cancelAt, protocol, ui, snapshot, parsing, report, prompts, seen,
                   unguarded>>

\* The refused Run call builds its error from a.state, line 52, after the
\* Unlock of line 51.  The read is not ordered with the writes of the other
\* goroutines: it gets the state the caller saw under the lock or the
\* current one.
NotIdleReport(t) ==
    /\ at[t].phase = "report"
    /\ \E s \in {pending[t].state, state} : ret' = [ret EXCEPT ![t] = NotIdleError(s)]
    /\ unguarded' = Noted(t, {"read state"})
    /\ at' = [at EXCEPT ![t] = Returned]
    /\ UNCHANGED <<config, onAction, state, result, goal, history, cancelled, pc, locals,
                   pending, logs, cancelAt, protocol, ui, snapshot, parsing, report, prompts,
                   mu, seen>>

\* The head of Run's loop, lines 66-74.
LoopHead(t) ==
    /\ at[t].phase = "top"
    /\ LET b == LoopTop(iter[t], maxIterations, cancelled)
       IN  at' = [at EXCEPT ![t] =
                    CASE b = "exhaust" -> Position("Run", "exhaust", "lock")
                      [] b = "cancel" -> Position("Run", "cancel", "lock")
                      [] OTHER -> Position("Run", "", "step")]
    /\ UNCHANGED <<agent, protocol, ui, snapshot, parsing, report, prompts, mu, seen, unguarded>>

\* step outside its critical sections, lines 98-107 and 127-138, with the
\* sleep and i++ of lines 85-86: the observation or the oracle fails, the
\* decision is done or failed, or the action is executed.
StepBody(t) ==
    /\ at[t].phase = "step"
    /\ \E ok \in BOOLEAN, o \in UIOracleOutcomes :
         LET d == GetAction(MessagesNew(cancelled, o))
             b == TerminalCheck(d.action)
         IN  CASE ~ok ->
                    /\ pending' = [pending EXCEPT ![t] = CaptureError]
                    /\ at' = [at EXCEPT ![t] = Position("Run", "defer", "lock")]
                    /\ UNCHANGED <<iter, nextAction>>
               [] ok /\ d.err # NoError ->
                    /\ pending' = [pending EXCEPT ![t] = LLMError(d.err)]
                    /\ at' = [at EXCEPT ![t] = Position("Run", "defer", "lock")]
                    /\ UNCHANGED <<iter, nextAction>>
               [] ok /\ d.err = NoError /\ b # "execute" ->
                    /\ nextAction' = [nextAction EXCEPT ![t] = d.action]
                    /\ at' = [at EXCEPT ![t] = Position("Run", b, "lock")]
                    /\ UNCHANGED <<iter, pending>>
               [] OTHER ->
                    /\ iter' = [iter EXCEPT ![t] = @ + 1]
                    /\ at' = [at EXCEPT ![t] = Position("Run", "", "top")]
                    /\ UNCHANGED <<nextAction, pending>>
    /\ UNCHANGED <<config, onAction, state, result, goal, history, cancelled, pc, execResult,
                   ret, logs, cancelAt, protocol, ui, snapshot, parsing, report, prompts, mu, seen,
                   unguarded>>

GuardNext ==
    \/ \E g \in Goroutines : Enter(g)
    \/ \E g \in Goroutines : Acquire(g)
    \/ \E g \in Goroutines : Section(g)
    \/ \E g \in Goroutines : Release(g)
    \/ \E t \in Threads : NotIdleReport(t)
    \/ \E t \in Threads : LoopHead(t)
    \/ \E t \in Threads : StepBody(t)
    \/ Cancel

GuardSpec == GuardInit /\ [][GuardNext]_vars

(***************************************************************************)
(* The History in memory.  The loop goroutine calls Add, a supervising     *)
(* goroutine calls Len, Last or All at any moment; History has no lock.    *)
(* h.entries is a slice header of three words, stored and loaded one word  *)
(* at a time.  history is the log: the entries handed to Add so far.     *)
(***************************************************************************)
MaxAdds == 3

MaxViews == 1

\* The entry the k-th step records: the click it executed.
EntryOf(k) == ToHistoryEntry([ZeroAction EXCEPT !.Type = ActionClick, !.X = k,
                                               !.Button = DefaultButton], Success(""))

\* The zero value of a cell of a backing array.
ZeroEntry == [Action |-> ZeroAction, Error |-> ""]

\* The capacity append gives a new backing array when the old one is full.
Grow(cap) == IF cap = 0 THEN 1 ELSE 2 * cap

\* append(h.entries, e) up to the store of its result: with room left the
\* entry is written behind the last one of the same array; otherwise a new
\* array is allocated, the entries are copied and the entry written.
AppendEntry(h, e) ==
    IF h.len < h.cap
      THEN [header |-> [ptr |-> h.ptr, len |-> h.len + 1, cap |-> h.cap],
            arrays |-> [h.arrays EXCEPT ![h.ptr][h.len + 1] = e]]
      ELSE [header |-> [ptr |-> Len(h.arrays) + 1, len |-> h.len + 1, cap |-> Grow(h.cap)],
            arrays |-> Append(h.arrays,
                              [i \in 1..Grow(h.cap) |->
                                 IF i <= h.len THEN h.arrays[h.ptr][i]
                                 ELSE IF i = h.len + 1 THEN e
                                 ELSE ZeroEntry])]

\* The words each method loads from h.entries.
Loads(method) ==
    CASE method = "Len" -> {"len"}
      [] method = "Last" -> {"ptr", "len"}
      [] OTHER -> Words

HistoryInit ==
    /\ maxIterations = MaxBudget
    /\ requireAbs = TRUE
    /\ Fresh
    /\ NoSubject
    /\ NoUI

\* h.Add(entry), lines 28-33: append builds the new slice.
AddCall ==
    /\ adding.pc = "idle"
    /\ Len(history) < MaxAdds
    /\ LET e == EntryOf(Len(history) + 1)
           r == AppendEntry(slice, e)
       IN  /\ history' = HistoryAdd(history, e)
           /\ slice' = [slice EXCEPT !.arrays = r.arrays]
           /\ adding' = [pc |-> "store", header |-> r.header, todo |-> Words]
    /\ UNCHANGED <<config, onAction, state, result, goal, cancelled, pc, locals, pending,
                   ret, logs, cancelAt, protocol, ui, guard, parsing, report, prompts,
                   viewing, views>>

\* h.entries = ...: one word of the new slice header is stored.
AddStore(w) ==
    /\ adding.pc = "store"
    /\ w \in adding.todo
    /\ slice' = [slice EXCEPT ![w] = adding.header[w]]
    /\ adding' = IF adding.todo = {w} THEN NotAdding
                 ELSE [adding EXCEPT !.todo = @ \ {w}]
    /\ UNCHANGED <<agent, protocol, ui, guard, parsing, report, prompts, viewing, views>>

\* The supervising goroutine calls h.Len(), h.Last() or h.All().
ViewCall(method) ==
    /\ viewing.pc = "idle"
    /\ Len(views) < MaxViews
    /\ viewing' = [NotViewing EXCEPT !.pc = "load", !.method = method,
                                     !.todo = Loads(method)]
    /\ UNCHANGED <<agent, protocol, ui, guard, parsing, report, prompts, slice, adding, views>>

\* It loads one word of h.entries.
ViewLoad(w) ==
    /\ viewing.pc = "load"
    /\ w \in viewing.todo
    /\ viewing' = [viewing EXCEPT !.got[w] = slice[w], !.todo = @ \ {w},
                                  !.overlap = @ \/ adding.pc # "idle"]
    /\ UNCHANGED <<agent, protocol, ui, guard, parsing, report, prompts, slice, adding, views>>

\* The method returns: Len the length, Last a pointer to the cell of that
\* index in the array (nil when the length is 0), All the slice itself.
ViewReturn ==
    /\ viewing.pc = "load"
    /\ viewing.todo = {}
    /\ views' = Append(views, [method |-> viewing.method, ptr |-> viewing.got.ptr,
                               len |-> viewing.got.len, overlap |-> viewing.overlap])
    /\ viewing' = NotViewing
    /\ UNCHANGED <<agent, protocol, ui, guard, parsing, report, prompts, slice, adding>>

HistoryNext ==
    \/ AddCall
    \/ \E w \in Words : AddStore(w)
    \/ \E method \in {"Len", "Last", "All"} : ViewCall(method)
    \/ \E w \in Words : ViewLoad(w)
    \/ ViewReturn

HistorySpec == HistoryInit /\ [][HistoryNext]_vars

(***************************************************************************)
(* Properties of the run.                                                  *)
(***************************************************************************)
\* The value caller t is returning or has returned.
Returning(t) == IF pc[t] = "done" THEN ret[t] ELSE pending[t]

\* Caller t has left the loop (the deferred function may still be pending).
Left(t) == pc[t] \in {"defer", "done"}

\* C1: terminal states are irreversible: once the agent's state is
\* completed, failed or stopped, no step of Run, step, the deferred function
\* or Stop gives it a different value.
C1_TerminalIrreversible == [][IsTerminal(state) => state' = state]_vars

\* C2: a run is never entered twice: at most one Run call is accepted and is
\* inside the loop, and every other call returns the not-idle error without
\* having called the observer, the oracle or the executor.
C2_SingleEntry ==
    /\ Cardinality(Accepted) <= 1
    /\ Cardinality(InLoop) <= 1
    /\ \A t \in Threads :
         pc[t] # "idle" /\ t \notin Accepted =>
           /\ pc[t] = "done"
           /\ ret[t].kind = "not idle"
           /\ calls[t] = NoCalls
    /\ \A t \in Threads : calls[t] # NoCalls => t \in Accepted

\* C2's case: both callers have called Run, one was turned away and the
\* other is executing an action.
C2_Witness ==
    \E t, u \in Threads :
      /\ pc[t] = "record"
      /\ pc[u] = "done"
      /\ ret[u].kind = "not idle"

\* C3: a Run call made in any state but idle returns the not-idle error
\* (naming that state) and leaves state, result, goal and history as they were.
C3_NotIdleNoChange ==
    [][\A t \in Threads :
         pc[t] = "idle" /\ pc'[t] # "idle" /\ state # StateIdle =>
           /\ pc'[t] = "done"
           /\ ret'[t] = NotIdleError(state)
           /\ UNCHANGED <<state, result, goal, history>>]_vars

\* C3's case: a call was turned away after the run had completed with a
\* recorded action, and the goal is still the accepted caller's.
C3_Witness ==
    \E t, u \in Threads :
      /\ ret[t] = NotIdleError(StateCompleted)
      /\ u # t /\ u \in Accepted
      /\ goal = GoalOf[u]
      /\ Len(history) >= 1

\* The k-th oracle call came back with a validated done or failed decision.
TerminalDecision(k) ==
    /\ decided[k].result.err = NoError
    /\ decided[k].result.action.Type \in {ActionDone, ActionFailed}

\* The state and the result a terminal decision stands for.
TerminalState(a) == IF a.Type = ActionDone THEN StateCompleted ELSE StateFailed

TerminalResult(a) == IF a.Type = ActionDone THEN a.Summary ELSE a.Reason

\* C4: a validated done decision makes the state completed with the summary
\* as result, a validated failed decision makes it failed with the reason as
\* result; Run returns nil, and from the decision on nothing more is
\* observed, decided, executed, recorded or notified.
C4_TerminalDecision ==
    /\ [](\A k \in 1..Len(decided) :
            TerminalDecision(k) =>
              /\ k = Len(decided)
              /\ Len(observed) = k
              /\ history = decided[k].history
              /\ Len(executed) = Len(decided[k].history)
              /\ Len(notified) <= Len(decided[k].history)
              /\ \A t \in Accepted :
                   \/ pc[t] = "check"
                   \/ /\ Left(t)
                      /\ state = TerminalState(decided[k].result.action)
                      /\ result = TerminalResult(decided[k].result.action)
                      /\ Returning(t) = NilError)
    /\ [][\A t \in Accepted :
            pc[t] = "done" /\ ret[t] = NilError => UNCHANGED <<history, logs>>]_vars

\* C4's case: the run has returned after a failed decision that followed a
\* recorded action.
C4_Witness ==
    \E t \in Threads :
      /\ pc[t] = "done"
      /\ Len(decided) = 2
      /\ TerminalDecision(2)
      /\ decided[2].result.action.Type = ActionFailed
      /\ state = StateFailed
      /\ result = "no window"
      /\ Len(history) = 1

\* No oracle call so far has come back with done or failed.
NoTerminalDecision ==
    \A k \in 1..Len(decided) :
      decided[k].result.err = NoError =>
        decided[k].result.action.Type \notin {ActionDone, ActionFailed}

\* No observation and no oracle call so far has failed.
NoCollaboratorFailure ==
    /\ \A k \in 1..Len(observed) : observed[k]
    /\ \A k \in 1..Len(decided) : decided[k].result.err = NoError

\* C5: with budget N, when no decision is done or failed, no collaborator
\* fails and cancellation is not signalled, Run ends failed with result
\* "max iterations reached", an error naming N, N history entries and N
\* oracle calls; and no run ever makes more than N oracle calls.
C5_BudgetExhaustion ==
    /\ Len(decided) <= maxIterations
    /\ \A t \in Threads :
         /\ pc[t] = "done"
         /\ t \in Accepted
         /\ ~cancelled
         /\ NoTerminalDecision
         /\ NoCollaboratorFailure
         => /\ state = StateFailed
            /\ result = MaxIterationsResult
            /\ ret[t] = MaxIterationsError(maxIterations)
            /\ Len(history) = maxIterations
            /\ Len(decided) = maxIterations

\* C5's case: a run with the largest budget has used it up.
C5_Witness ==
    \E t \in Threads :
      /\ pc[t] = "done"
      /\ maxIterations = MaxBudget
      /\ ret[t] = MaxIterationsError(MaxBudget)
      /\ Len(history) = MaxBudget
      /\ ~cancelled

\* The kinds that require a field, and the field each requires.
RequiringKinds == {ActionType_, ActionKey, ActionScroll, ActionFileRead,
                   ActionFileWrite, ActionFailed}

RequiredField(kind) ==
    CASE kind = ActionType_ -> "text"
      [] kind = ActionKey -> "key"
      [] kind = ActionScroll -> "direction"
      [] kind \in {ActionFileRead, ActionFileWrite} -> "path"
      [] kind = ActionFailed -> "reason"

\* The decision's kind requires a field and the decision does not carry it.
Lacks(d) ==
    \/ d.Type = ActionType_ /\ d.Text = ""
    \/ d.Type = ActionKey /\ d.Key = ""
    \/ d.Type = ActionScroll /\ d.Direction = ""
    \/ d.Type \in {ActionFileRead, ActionFileWrite} /\ d.Path = ""
    \/ d.Type = ActionFailed /\ d.Reason = ""

\* The k-th oracle call came back with a decoded object.
Decoded(k) == decided[k].reply.api = "ok" /\ decided[k].reply.text.json

\* The k-th oracle call failed and ended the run: it was the last call, the
\* accepted caller is returning its error, and nothing has been executed or
\* recorded since the call was made.
Aborted(k) ==
    /\ decided[k].result.err # NoError
    /\ k = Len(decided)
    /\ \A t \in Accepted : Left(t) /\ Returning(t) = LLMError(decided[k].result.err)
    /\ history = decided[k].history
    /\ Len(executed) = Len(decided[k].history)

CancelPhases == {"observe", "decide", "execute", "sleep"}

\* C7: once the context is cancelled while the state is running, in whichever
\* phase of a step, the run ends stopped and at most one action is executed
\* after the signal.
C7_CancelReachesStopped ==
    \A t \in Threads :
      /\ pc[t] = "done"
      /\ t \in Accepted
      /\ cancelAt.raised
      /\ cancelAt.state = StateRunning
      /\ cancelAt.phase \in CancelPhases
      => /\ state = StateStopped
         /\ Len(executed) - cancelAt.executed <= 1

\* C8: a decision that lacks the field its kind requires is rejected with a
\* ValidationError naming that field, GetAction returns an error, the run
\* aborts, and the executor is not called for that decision.
C8_MissingFieldRejected ==
    \A k \in 1..Len(decided) :
      Decoded(k) /\ Lacks(decided[k].reply.text.obj) =>
        /\ Validate(decided[k].reply.text.obj).err.Field
             = RequiredField(decided[k].reply.text.obj.Type)
        /\ decided[k].result.err.cause = "validation"
        /\ decided[k].result.err.field = RequiredField(decided[k].reply.text.obj.Type)
        /\ Aborted(k)

\* C8's case: after one recorded action the oracle sent a failed decision
\* without a reason, and the run has returned.
C8_Witness ==
    /\ Len(decided) = 2
    /\ Decoded(2)
    /\ decided[2].reply.text.obj.Type = ActionFailed
    /\ decided[2].reply.text.obj.Reason = ""
    /\ Len(history) = 1
    /\ \E t \in Threads : pc[t] = "done" /\ ret[t].field = "reason"

\* A well-formed action for the executor: a non-terminal kind, its required
\* field present, its defaults applied.
WellFormed(a) ==
    /\ a.Type \in NonTerminalKinds
    /\ ~Lacks(a)
    /\ a.Type = ActionClick => a.Button # ""
    /\ a.Type = ActionScroll => a.Amount # 0
    /\ a.Type = ActionWait => a.Ms # 0

\* C9: every action passed to Executor.Execute is well-formed.
C9_ExecutedWellFormed == \A k \in 1..Len(executed) : WellFormed(executed[k])

\* C9's case: a click and a scroll that came without button and amount have
\* been passed to the executor with the defaults.
C9_Witness ==
    /\ Len(executed) = 2
    /\ executed[1].Type = ActionClick /\ executed[1].Button = "left"
    /\ executed[2].Type = ActionScroll /\ executed[2].Amount = 3

\* The k-th oracle call came back with an object whose tag is not one of the
\* nine kinds.
UnknownTag(k) == Decoded(k) /\ decided[k].reply.text.obj.Type \notin ActionKinds

\* C10 as stated: a decision with an unknown tag fails validation with field
\* "type" and the message "unknown action type", and is never executed.
C10_UnknownTypeExactMessage ==
    \A k \in 1..Len(decided) :
      UnknownTag(k) =>
        /\ decided[k].result.err.field = "type"
        /\ decided[k].result.err.message = "unknown action type"
        /\ Aborted(k)

\* C10, amended: a decision with an unknown tag (the empty tag included)
\* fails validation with field "type" and the message "unknown action type: "
\* followed by the tag; the run aborts with that error, and no action with an
\* unknown tag is ever passed to the executor.
C10_UnknownTypeRejected ==
    /\ \A k \in 1..Len(decided) :
         UnknownTag(k) =>
           /\ decided[k].result.err.cause = "validation"
           /\ decided[k].result.err.field = "type"
           /\ decided[k].result.err.message
                = "unknown action type: " \o decided[k].reply.text.obj.Type
           /\ Aborted(k)
    /\ \A j \in 1..Len(executed) : executed[j].Type \in ActionKinds

\* C10's case: after one recorded action the oracle sent a decision with the
\* empty tag, and the run has returned.
C10_Witness ==
    /\ Len(decided) = 2
    /\ UnknownTag(2)
    /\ decided[2].reply.text.obj.Type = ""
    /\ Len(history) = 1
    /\ \E t \in Threads : pc[t] = "done" /\ ret[t].field = "type"

\* The k-th oracle call failed: the request failed, the message had no
\* content or no text, the text was not a JSON object, or the object did not
\* pass Validate.
OracleFailed(k) ==
    \/ decided[k].reply.api # "ok"
    \/ ~decided[k].reply.text.json
    \/ Validate(decided[k].reply.text.obj).err # NoValidationError

\* C12: a collaborator failure is fatal and not retried.  When the k-th
\* observation fails the oracle is not called in that step; when the k-th
\* oracle call fails the executor is not called in that step; either way Run
\* returns the error that wraps the failure, the history is what the k-1
\* earlier steps recorded, and no observation, oracle or executor call
\* follows.
C12_CollaboratorFailureFatal ==
    /\ \A k \in 1..Len(observed) :
         ~observed[k] =>
           /\ k = Len(observed)
           /\ Len(decided) = k - 1
           /\ Len(executed) = k - 1
           /\ Len(history) = k - 1
           /\ Accepted # {}
           /\ \A t \in Accepted : Left(t) /\ Returning(t) = CaptureError
    /\ \A k \in 1..Len(decided) :
         OracleFailed(k) =>
           /\ decided[k].result.err # NoError
           /\ Aborted(k)
           /\ Accepted # {}
           /\ Len(observed) = k
           /\ Len(history) = k - 1

\* C12's case: after one recorded action the request to the oracle failed
\* (the context was not cancelled), and Run has returned the wrapped error.
C12_Witness ==
    /\ Len(decided) = 2
    /\ decided[2].reply.api = "error"
    /\ ~cancelled
    /\ Len(history) = 1
    /\ \E t \in Threads :
         pc[t] = "done" /\ ret[t].kind = "failed to get action from LLM"
                        /\ ret[t].cause = "api"

\* Caller t's Run is returning a step error (a failed observation or a
\* failed oracle call).
StepError(t) == pending[t].kind \in {"failed to capture screenshot",
                                     "failed to get action from LLM"}

\* C13: whenever an accepted Run call has returned, by whichever path, the
\* state is completed, failed or stopped; the deferred function makes a state
\* that is still running stopped (so after a step error), and leaves a
\* terminal state as it is.
C13_ReturnedIsTerminal ==
    /\ [](\A t \in Accepted : pc[t] = "done" => IsTerminal(state))
    /\ [][\A t \in Threads :
            pc[t] = "defer" /\ pc'[t] = "done" =>
              /\ state = StateRunning => state' = StateStopped
              /\ IsTerminal(state) => state' = state
              /\ ret'[t] = pending[t]]_vars

\* C13's case: Run has returned the error of a failed observation, nobody
\* cancelled the context, and the state is stopped.
C13_Witness ==
    \E t \in Threads :
      /\ pc[t] = "done"
      /\ ret[t] = CaptureError
      /\ ~cancelled
      /\ state = StateStopped

\* C14: an execution failure is not fatal.  When the k-th Execute call
\* returns a result with Success false, the step still appends the k-th history
\* entry with the result's error text, still calls the callback with that
\* action and result, changes neither the state nor what Run will return, and
\* goes on to the stabilization sleep; the next oracle call gets a history
\* whose last entry carries that error, and if no further step starts the run
\* ends only by cancellation or by the budget.
C14_ExecutionFailureNotFatal ==
    /\ [](\A k \in 1..Len(results) :
            ~results[k].Success =>
              /\ Len(history) >= k =>
                   history[k] = [Action |-> executed[k], Error |-> results[k].Error]
              /\ Len(notified) >= k =>
                   notified[k] = [Action |-> executed[k], Result |-> results[k]]
              /\ Len(decided) > k =>
                   /\ Len(decided[k + 1].history) = k
                   /\ decided[k + 1].history[k].Error = results[k].Error
              /\ \A t \in Accepted :
                   Left(t) /\ Len(observed) = k =>
                     Returning(t).kind \in {"context canceled", "max iterations reached"})
    /\ [][\A t \in Threads :
            ~execResult[t].Success /\ pc'[t] # pc[t] =>
              /\ pc[t] = "record" =>
                   /\ pc'[t] = "notify"
                   /\ Len(history') = Len(history) + 1
                   /\ UNCHANGED <<state, result, pending>>
              /\ pc[t] = "notify" =>
                   /\ pc'[t] = "sleep"
                   /\ Len(notified') = Len(notified) + 1
                   /\ UNCHANGED <<state, result, pending, history>>
              /\ pc[t] = "sleep" =>
                   /\ pc'[t] = "top"
                   /\ UNCHANGED <<state, result, pending, history>>]_vars

\* C14's case: the first action failed in the executor, and the oracle has
\* been called a second time, with that error in the history, while the
\* state is running.
C14_Witness ==
    /\ Len(results) >= 1
    /\ ~results[1].Success
    /\ results[1].Error # ""
    /\ Len(decided) = 2
    /\ decided[2].history[1].Error = results[1].Error
    /\ Len(notified) >= 1
    /\ state = StateRunning

\* The number of non-terminal actions Execute has completed.
NonTerminalExecuted ==
    Cardinality({k \in 1..Len(executed) : executed[k].Type \in NonTerminalKinds})

\* The callers whose step holds a result of Execute it has not appended yet
\* (between line 127 and line 131).
Recording == {t \in Threads : pc[t] = "record"}

\* The n-th history entry records the n-th executed action and the outcome of
\* the n-th result.
Matches(n) ==
    /\ history[n].Action = executed[n]
    /\ history[n].Error = IF results[n].Success THEN "" ELSE results[n].Error

\* C15 as stated: in every reachable state the history length equals the
\* number of non-terminal actions Execute has completed, and the last entry's
\* outcome is that of the most recent result.
C15_HistoryCountsExecuted ==
    /\ Len(history) = NonTerminalExecuted
    /\ Len(history) >= 1 =>
         history[Len(history)].Error =
           IF results[Len(results)].Success THEN "" ELSE results[Len(results)].Error

\* C15, amended: the history length equals the number of non-terminal
\* actions Execute has completed, less the one whose result the step in
\* flight has got and not appended yet; every entry records the action and
\* the outcome of the Execute call of its position, so outside that window
\* the last entry's outcome is that of the most recent result; done and
\* failed decisions add no entry and are not executed.
C15_HistoryCountsRecorded ==
    /\ Len(results) = Len(executed)
    /\ Cardinality(Recording) <= 1
    /\ Len(history) = NonTerminalExecuted - Cardinality(Recording)
    /\ \A n \in 1..Len(history) : Matches(n)
    /\ Recording = {} => Len(history) = Len(results)
    /\ \A k \in 1..Len(decided) :
         TerminalDecision(k) =>
           /\ Len(history) = Len(decided[k].history)
           /\ Len(executed) = Len(decided[k].history)

\* C15's case: two actions have been executed and recorded, the second one
\* failed in the executor, and the step is past the append.
C15_Witness ==
    /\ Len(history) = 2
    /\ Len(results) = 2
    /\ ~results[2].Success
    /\ history[2].Error = results[2].Error
    /\ history[1].Error = ""
    /\ Recording = {}

\* s is a prefix of t.
IsPrefix(s, t) == Len(s) <= Len(t) /\ SubSeq(t, 1, Len(s)) = s

\* C16: the history is append-only: over every transition (an Add, a
\* GetLLMHistory, a step of Run, a Stop, a cancellation) the history before
\* is a prefix of the history after; no entry is removed, moved or altered.
C16_AppendOnly == [][IsPrefix(history, history')]_vars

\* C16's case: two different entries have been added, in the order of their
\* execution, and Stop has been called on the run.
C16_Witness ==
    /\ Len(history) = 2
    /\ history[1] # history[2]
    /\ history[1].Action = executed[1]
    /\ history[2].Action = executed[2]
    /\ state = StateStopped

(***************************************************************************)
(* Properties of Validate.                                                 *)
(***************************************************************************)
\* The fields of the action Validate never writes.
Untouched(a) == [a EXCEPT !.Button = "", !.Amount = 0, !.Ms = 0]

\* C11: Validate applies defaults in place and only to omitted fields: a
\* click with empty button gets button "left", a scroll with a direction
\* and amount 0 gets amount 3, a wait with ms 0 gets ms 500; a non-empty
\* button and a non-zero amount or ms stay as they are, and no other field
\* of the action changes.
C11_DefaultsInPlace ==
    Len(verdicts) >= 1 =>
      /\ subject.Button =
           IF submitted.Type = ActionClick /\ submitted.Button = ""
             THEN "left" ELSE submitted.Button
      /\ subject.Amount =
           IF submitted.Type = ActionScroll /\ submitted.Direction # ""
                /\ submitted.Amount = 0
             THEN 3 ELSE submitted.Amount
      /\ subject.Ms =
           IF submitted.Type = ActionWait /\ submitted.Ms = 0
             THEN 500 ELSE submitted.Ms
      /\ Untouched(subject) = Untouched(submitted)

\* C11's case: a scroll with a direction, no amount and every other field
\* set has been validated and now carries amount 3.
C11_Witness ==
    /\ Len(verdicts) = 1
    /\ verdicts[1] = NoValidationError
    /\ submitted.Type = ActionScroll
    /\ submitted.Amount = 0
    /\ submitted.Button = "right"
    /\ submitted.Text = "hello"
    /\ subject.Amount = 3
    /\ subject.Button = "right"

(***************************************************************************)
(* Properties of the terminal UI.                                          *)
(***************************************************************************)
\* The messages of agent a that Update has handled, in the order it handled
\* them.
ProcessedFrom(a) == SelectSeq(processed, LAMBDA m : m.From = a)

\* The callback of agent a has been called with its executed actions in the
\* order of its history: the k-th call carried the action of the k-th entry.
CallbackFollowsHistory(a) ==
    \A k \in 1..Len(agents[a].sends) :
      agents[a].sends[k].msg.Kind = "ActionExecutedMsg" =>
        /\ agents[a].sends[k].msg.Seq = k
        /\ k <= Len(agents[a].history)
        /\ agents[a].sends[k].msg.Action = agents[a].history[k].Action

\* The agent of the run the UI shows (the one started last).
Current == AgentOrder[Cardinality(Started)]

\* C17: events follow the loop's execution order: the actions passed to the
\* callback are the history entries in their order; the ActionExecutedMsg
\* values Update has handled for the run on display (the list it shows) are
\* actions of that run, in the order of their execution; and of one run's
\* messages Update handles the executed actions in their order and the
\* finished message after all of them.
C17_EventsInOrder ==
    /\ \A a \in Agents :
         /\ CallbackFollowsHistory(a)
         /\ \A i, j \in 1..Len(ProcessedFrom(a)) :
              i < j =>
                /\ ProcessedFrom(a)[i].Kind = "ActionExecutedMsg"
                /\ ProcessedFrom(a)[j].Kind = "ActionExecutedMsg" =>
                     ProcessedFrom(a)[i].Seq < ProcessedFrom(a)[j].Seq
    /\ \A i \in 1..Len(actionHistory) :
         /\ view # ViewInput => actionHistory[i].From = Current
         /\ \A j \in 1..Len(actionHistory) :
              i < j /\ actionHistory[i].From = actionHistory[j].From =>
                actionHistory[i].Seq < actionHistory[j].Seq

\* The goroutine of agent a has ended after Run returned a step error without
\* the user having stopped the run.
Errored(a) ==
    /\ agents[a].pc = "exited"
    /\ agents[a].err.kind \in {"failed to capture screenshot",
                               "failed to get action from LLM"}
    /\ ~agents[a].ctxDone

\* C18: when a run driven from the UI aborts on an observation, decision or
\* validation error and not on the user's cancellation, an AgentErrorMsg with
\* that error is sent to the update channel.
C18_ErrorEventEmitted ==
    \A a \in Agents :
      Errored(a) =>
        \E k \in 1..Len(agents[a].sends) :
          agents[a].sends[k].msg = AgentErrorMsg(a, agents[a].err)

\* C19: when a run driven from the UI ends completed or failed, an
\* AgentDoneMsg with Success true for completed and false for failed and with
\* the agent's result as Message is delivered: the channel takes it.
C19_DoneEventDelivered ==
    \A a \in Agents :
      agents[a].pc = "exited" /\ agents[a].state \in {StateCompleted, StateFailed} =>
        \E k \in 1..Len(agents[a].sends) :
          /\ agents[a].sends[k].msg =
               AgentDoneMsg(a, agents[a].state = StateCompleted, agents[a].result)
          /\ agents[a].sends[k].sent

\* C20: event delivery never blocks the loop: whenever the goroutine of an
\* agent is at the callback or at the completion send it can take the step,
\* whatever the channel holds and whether or not anybody receives; so every
\* run that has been started ends, the run whose oracle returns done
\* included, whatever the user and Update do.
C20_DeliveryNeverBlocks ==
    /\ [](\A a \in Agents :
            agents[a].pc \in {"notify", "returned"} => ENABLED AgentNext(a))
    /\ \A a \in Agents :
         /\ (agents[a].pc # "unborn") ~> (agents[a].pc = "exited")
         /\ (agents[a].state = StateCompleted) ~> (agents[a].pc = "exited")

\* C20's case: the goroutine of an agent has ended although the buffer of the
\* channel is full, nobody is receiving and one of its messages was dropped.
C20_Witness ==
    \E a \in Agents :
      /\ agents[a].pc = "exited"
      /\ Len(updateCh) = UpdateChCap
      /\ waiting = 0
      /\ \E k \in 1..Len(agents[a].sends) : ~agents[a].sends[k].sent

(***************************************************************************)
(* Results, accessors and the executor's outcomes.                         *)
(***************************************************************************)
\* C21: every terminal outcome carries a result string: whenever the state
\* is completed, failed or stopped, Result() returns a non-empty string.
C21_TerminalHasResult == IsTerminal(state) => result # ""

\* The k-th Execute call broke the absolute-path policy.
PolicyViolation(k) ==
    /\ executed[k].Type \in {ActionFileRead, ActionFileWrite}
    /\ requireAbs
    /\ ~IsAbs(executed[k].Path)

\* An effector call of the k-th Execute call failed.
EffectorFailed(k) == \E i \in 1..Len(effected[k]) : effected[k][i].failed

\* C22: every Result of Executor.Execute with Success false has a non-empty
\* Error, and every effector failure (a failing file read, directory creation
\* or file write, a policy violation, an unknown kind) comes back as such a
\* Result: every call returns one.
C22_FailuresAreResults ==
    /\ Len(results) = Len(executed)
    /\ \A k \in 1..Len(results) :
         /\ ~results[k].Success => results[k].Error # ""
         /\ EffectorFailed(k) \/ PolicyViolation(k) \/ executed[k].Type \notin ActionKinds =>
               ~results[k].Success /\ results[k].Error # ""

\* C22's case: one action has been executed twice, a file read that failed
\* in the file system once and a call that returned a failed Result.
C22_Witness ==
    /\ Len(results) = MaxExecutions
    /\ \E k \in 1..Len(results) :
         /\ executed[k].Type = ActionFileRead
         /\ EffectorFailed(k)
         /\ ~results[k].Success

\* A reader that got completed or failed from State() has got from the
\* Result() call after it the result written with that state.
ReaderSeesResultOfTransition ==
    seen.done /\ seen.state \in {StateCompleted, StateFailed} =>
      seen.result = result /\ result # ""

\* C23: state and result are safe to read during the run: every read and
\* write of a.state and a.result is made by a goroutine holding a.mu, and a
\* reader that got completed or failed from State() gets from the Result()
\* call after it the result written with that state.
C23_StateAndResultGuarded ==
    /\ unguarded = {}
    /\ ReaderSeesResultOfTransition

\* The entries a returned value shows: the cells it refers to, which lie
\* outside the array when the length is beyond the array's end.
InBounds(v) == v.len <= Len(slice.arrays[v.ptr])

Shown(v) ==
    CASE v.method = "Len" -> SubSeq(history, 1, v.len)
      [] v.method = "Last" ->
           IF v.len = 0 THEN <<>> ELSE <<slice.arrays[v.ptr][v.len]>>
      [] OTHER -> SubSeq(slice.arrays[v.ptr], 1, v.len)

\* What a consistent prefix of that length shows.
Expected(v) ==
    IF v.method = "Last"
      THEN (IF v.len = 0 THEN <<>> ELSE <<history[v.len]>>)
      ELSE SubSeq(history, 1, v.len)

\* What Len, Last and All have returned is a consistent prefix of the log:
\* a length the log has reached, cells inside the array, and in them the
\* entries of the log.
ViewsArePrefixes ==
    \A k \in 1..Len(views) :
      /\ views[k].len <= Len(history)
      /\ views[k].method # "Len" => InBounds(views[k])
      /\ views[k].method # "Len" /\ InBounds(views[k]) => Shown(views[k]) = Expected(views[k])

\* C24: reading the history while the loop appends has snapshot semantics:
\* what Len, Last and All return is a consistent prefix of the log, now and
\* after every later append, and no load of h.entries is made while an Add
\* is storing it.
C24_SnapshotReads ==
    /\ \A k \in 1..Len(views) : ~views[k].overlap
    /\ ViewsArePrefixes

(***************************************************************************)
(* Properties of the parser.                                               *)
(***************************************************************************)
\* C25: round trip: for every action Validate has accepted, of each of the
\* nine kinds, ParseAction of its JSON encoding (zero-valued fields left
\* out) returns an action equal to it in every field.
C25_RoundTrip ==
    \A k \in 1..Len(parsed) :
      parsed[k].text = Marshal(subject) /\ subject \in WellFormedActions =>
        parsed[k].result = [err |-> NoError, action |-> subject]

\* C25's case: a click with every field set (the double flag among them) has
\* been encoded and parsed back.
C25_Witness ==
    /\ subject \in WellFormedActions
    /\ subject.Type = ActionClick
    /\ subject.Double
    /\ subject.Button = "right"
    /\ \E k \in 1..Len(parsed) :
         /\ parsed[k].text = Marshal(subject)
         /\ parsed[k].result.action = subject

\* The text of call k has braces outside its object.
BracesInProse(k) ==
    Cardinality(Occurrences(parsed[k].text, OpenBrace)) > 1
      \/ Cardinality(Occurrences(parsed[k].text, CloseBrace)) > 1

\* cleanResponse has returned the object of call k, and ParseAction what it
\* returns for the bare object.
ObjectRecovered(k) ==
    /\ parsed[k].cleaned = Marshal(subject)
    /\ parsed[k].result = ParseText(Marshal(subject))

\* C29: for every reply that is one JSON object, bare, inside a code fence
\* or with prose before and after it (prose with braces included),
\* cleanResponse returns exactly the object and ParseAction returns what it
\* returns for the bare object.
C29_ObjectExtracted == \A k \in 1..Len(parsed) : ObjectRecovered(k)

\* The same for the replies whose prose has no braces.
ObjectExtractedWithoutBraces ==
    \A k \in 1..Len(parsed) : ~BracesInProse(k) => ObjectRecovered(k)

\* The decision the loop is working on: the latest call of the oracle.
LatestDecision == decided[Len(decided)]

\* The decision d went through Validate once, and Validate accepted it and
\* returned the action a.
ValidatedOnce(d, a) ==
    /\ d.validations = 1
    /\ d.result = [err |-> NoError, action |-> a]
    /\ Validate(d.reply.text.obj) = [err |-> NoValidationError, action |-> a]

\* A step of thread t in which its decision takes effect: the terminal
\* check or the dispatch (lines 110-127), the history append (line 131).
TakesEffect(t) ==
    /\ pc[t] \in {"check", "execute", "record"}
    /\ \/ pc'[t] # pc[t]
       \/ state' # state
       \/ result' # result
       \/ history' # history
       \/ executed' # executed
       \/ effected' # effected

RecordedBy(j) == ToHistoryEntry(executed[j], results[j])

Sentinels == {ActionDone, ActionFailed}

\* C28: Execute on a done or failed action returns a successful result and
\* calls no effector; and the action was not handed to Execute by a run of
\* the agent (in a run no done or failed decision is executed).
C28_SentinelsNotExecuted ==
    \A k \in 1..Len(executed) :
      executed[k].Type \in Sentinels =>
        /\ results[k].Success
        /\ results[k].Error = ""
        /\ effected[k] = <<>>
        /\ Accepted = {}
        /\ decided = <<>>

\* Execute was called on a done action with all its fields set and on the
\* same action again.
C28_Witness ==
    /\ Len(executed) = 2
    /\ executed[1].Type = ActionDone
    /\ executed[1].Path # ""
    /\ results[1] = Success("")
    /\ effected = <<(<<>>), (<<>>)>>

\* The k-th action handed to Execute is a file action with a path that is
\* not absolute.
RelativeFileAction(k) ==
    /\ executed[k].Type \in {ActionFileRead, ActionFileWrite}
    /\ ~IsAbs(executed[k].Path)

\* The error of the policy check for the k-th action.
MustBeAbsolute(k) == "path must be absolute: " \o executed[k].Path

\* C30: with the absolute-path policy on, a file_read or file_write with a
\* relative path gives a failed result saying that the path must be
\* absolute, no file is read, no directory created and no file written, and
\* in a run the step goes on to record the failure in the history; with the
\* policy off the check is skipped and the file system is called.
C30_AbsolutePathPolicy ==
    \A k \in 1..Len(executed) :
      RelativeFileAction(k) =>
        IF requireAbs
          THEN /\ results[k] = Failure(MustBeAbsolute(k))
               /\ effected[k] = <<>>
               /\ k <= Len(history) =>
                    history[k] = [Action |-> executed[k], Error |-> MustBeAbsolute(k)]
               /\ \A t \in Accepted :
                    \/ k <= Len(history)
                    \/ k = Len(executed) /\ pc[t] = "record"
          ELSE /\ effected[k] # <<>>
               /\ results[k].Error # MustBeAbsolute(k)

\* In a run with the policy on, the first decision was a file_read of a
\* relative path: nothing was read, the failure was recorded, and the oracle
\* was called again with it.
C30_Witness ==
    /\ requireAbs
    /\ Len(decided) = 2
    /\ executed[1].Type = ActionFileRead
    /\ executed[1].Path \in RelativePaths
    /\ effected[1] = <<>>
    /\ ~results[1].Success
    /\ decided[2].history = <<[Action |-> executed[1], Error |-> MustBeAbsolute(1)]>>

(***************************************************************************)
(* Properties of repeated validation.                                      *)
(***************************************************************************)
\* C39: Validate is idempotent.  When the first call succeeds, a second call
\* on the action it left succeeds too and changes no field; when the first
\* call fails it has changed no field, and a second call fails with the same
\* field (and the same error) and changes no field either.
C39_ValidateIdempotent ==
    [][Len(verdicts) = 1 /\ Len(verdicts') = 2 =>
         /\ verdicts'[2] = verdicts[1]
         /\ verdicts'[2].Field = verdicts[1].Field
         /\ subject' = subject
         /\ verdicts[1] # NoValidationError => subject = submitted]_vars

\* A wait without ms was validated twice: the first call wrote the default,
\* the second one found it and left it.
C39_Witness ==
    /\ Len(verdicts) = 2
    /\ verdicts[1] = NoValidationError
    /\ verdicts[2] = NoValidationError
    /\ submitted.Type = ActionWait
    /\ submitted.Ms = 0
    /\ subject.Ms = DefaultMs

\* A scroll without direction and amount was validated twice and rejected
\* twice.
RejectedTwice ==
    /\ Len(verdicts) = 2
    /\ submitted.Type = ActionScroll
    /\ submitted.Amount = 0
    /\ verdicts[2].Field = "direction"
    /\ subject = submitted

(***************************************************************************)
(* Properties of Stop and of what Run returns.                             *)
(***************************************************************************)
\* C34: Stop stops the agent: once Stop has made the state stopped while a
\* caller is inside Run's loop, the loop begins no further step (it executes
\* nothing beyond the step that was in flight) and the state stays stopped.
C34_StopStops ==
    [][\A t \in Threads :
         state = StateStopped /\ pc[t] = "top" =>
           /\ pc'[t] # "observe"
           /\ state' = StateStopped]_vars

\* The latest decision was accepted and is done or failed.
EndedByDecision ==
    /\ decided # <<>>
    /\ LatestDecision.result.err = NoError
    /\ LatestDecision.result.action.Type \in Sentinels

\* The latest observation failed.
ObservationFailed == observed # <<>> /\ ~observed[Len(observed)]

\* The latest call of the oracle returned an error (the request failed, the
\* reply did not parse, or Validate rejected the decision).
DecisionFailed ==
    /\ decided # <<>>
    /\ Len(decided) = Len(observed)
    /\ LatestDecision.result.err # NoError

\* C35: what an accepted Run call returns.  nil exactly when the run ended
\* through a done or failed decision; the context's error when the
\* cancellation was seen at the top of an iteration, with the state stopped;
\* the error that wraps the failure of the observation or of the oracle
\* call (a rejected decision included) when a step failed, with the state
\* stopped; the max-iterations error when the budget was used up, with the
\* state failed.
C35_RunReturns ==
    \A t \in Accepted :
      pc[t] = "done" =>
        /\ ret[t] = NilError <=> EndedByDecision
        /\ ret[t] = NilError => state \in {StateCompleted, StateFailed}
        /\ ret[t].kind \in {"nil", "context canceled", "failed to capture screenshot",
                            "failed to get action from LLM", "max iterations reached"}
        /\ ret[t].kind = "context canceled" =>
             /\ cancelled
             /\ state = StateStopped
             /\ Len(history) = Len(observed)
        /\ ret[t].kind = "failed to capture screenshot" <=> ObservationFailed
        /\ ret[t].kind = "failed to capture screenshot" => state = StateStopped
        /\ ret[t].kind = "failed to get action from LLM" <=> DecisionFailed
        /\ ret[t].kind = "failed to get action from LLM" =>
             /\ ret[t].cause = LatestDecision.result.err.cause
             /\ ret[t].field = LatestDecision.result.err.field
             /\ ret[t].message = LatestDecision.result.err.message
             /\ state = StateStopped
        /\ ret[t].kind = "max iterations reached" =>
             /\ ret[t].n = maxIterations
             /\ Len(history) = maxIterations
             /\ state = StateFailed

\* Run has returned the error that wraps the ValidationError of the second
\* decision, and the state is stopped.
C35_Witness ==
    \E t \in Accepted :
      /\ pc[t] = "done"
      /\ Len(decided) = 2
      /\ ret[t].kind = "failed to get action from LLM"
      /\ ret[t].cause = "validation"
      /\ ret[t].field # ""
      /\ ~cancelled
      /\ state = StateStopped

(***************************************************************************)
(* Properties of the headless driver.                                      *)
(***************************************************************************)
\* Run returned the error of a failed step.
StepFailed == ret[Main].kind \in {"failed to capture screenshot",
                                  "failed to get action from LLM"}

\* C36: in headless mode, when Run has returned the error of a failed
\* observation, decision or validation and nobody cancelled the run, the
\* program prints that error and exits with a status other than 0; and it
\* prints "Stopped by user" with status 0 only for a run that a signal
\* cancelled.
C36_HeadlessReportsErrors ==
    report # NotReported =>
      /\ StepFailed /\ ~cancelled =>
           /\ report.line = "Error: " \o ret[Main].kind
           /\ report.exit # 0
      /\ report = [line |-> "Stopped by user", exit |-> 0] => cancelled

(***************************************************************************)
(* Properties of the user prompt.                                          *)
(***************************************************************************)
\* s occurs in t as a run of consecutive pieces.
Within(s, t) == \E i \in 0..(Len(t) - Len(s)) : SubSeq(t, i + 1, i + Len(s)) = s

\* The outcome status of entry e: OK, or ERROR with the error text.
StatusOf(e) == IF e.Error = <<>> THEN <<"OK">> ELSE <<"ERROR: ">> \o e.Error

\* The line begins with the 1-based position i and the action kind of e and
\* ends with the status of e in brackets.
PositionKindStatus(line, i, e) ==
    LET head == itoa(i) \o <<". ", e.Action.Type, ": ">>
        tail == <<" [">> \o StatusOf(e) \o <<"]\n">>
    IN  /\ Len(line) >= Len(head) + Len(tail)
        /\ SubSeq(line, 1, Len(head)) = head
        /\ SubSeq(line, Len(line) - Len(tail) + 1, Len(line)) = tail

\* A payload longer than the preview length is shown as a preview: its
\* first PreviewLen characters are in the line, the payload in full is not.
Previewed(line, payload) ==
    Len(payload) > PreviewLen =>
      /\ Within(SubSeq(payload, 1, PreviewLen), line)
      /\ ~Within(payload, line)

\* C33: in the prompt every history entry is a line with its 1-based
\* position, its kind, its parameters and its status (OK, or ERROR and the
\* error text); a typed text longer than 50 characters is its first 50
\* characters and "...", a path is cut to a preview too, and the content of
\* a file is not in the line.
C33_EntriesRenderedAndTruncated ==
    \A k \in 1..Len(prompts) :
      LET p == prompts[k]
      IN  /\ Within(HistoryLines(p.history, 1), p.prompt)
          /\ \A i \in 1..Len(p.history) :
               LET e == p.history[i]
                   line == p.lines[i]
               IN  /\ PositionKindStatus(line, i, e)
                   /\ e.Action.Type = "type" =>
                        /\ Previewed(line, e.Action.Text)
                        /\ Len(e.Action.Text) > PreviewLen =>
                             Within(<<"\"">> \o SubSeq(e.Action.Text, 1, PreviewLen)
                                      \o <<"...", "\"">>, line)
                   /\ e.Action.Type \in {"file_read", "file_write"} =>
                        Previewed(line, e.Action.Path)
                   /\ ~Within(<<e.Action.Content>>, line)

\* The same without the paths and without typed texts that hold a verb of
\* sprintf.
RenderedExceptPaths ==
    \A k \in 1..Len(prompts) :
      LET p == prompts[k]
      IN  \A i \in 1..Len(p.history) :
            LET e == p.history[i]
                line == p.lines[i]
            IN  /\ ~Within(<<"%s">>, e.Action.Text) => PositionKindStatus(line, i, e)
                /\ e.Action.Type = "type" => Previewed(line, e.Action.Text)
                /\ ~Within(<<e.Action.Content>>, line)

(***************************************************************************)
(* Properties of the runs the terminal UI starts one after another.        *)
(***************************************************************************)
\* The goroutine of agent a is inside the loop of Run: it has passed Run's
\* entry and Run has not returned.
InsideRun(a) == agents[a].pc \in {"top", "decide", "notify"}

\* C32: at most one run targets the environment at a time when driven from
\* the UI: whatever keys the user presses, at no moment are two agents that
\* startAgent has created both inside the loop of Run.
C32_OneRunAtATime ==
    \A a, b \in Agents : InsideRun(a) /\ InsideRun(b) => a = b

\* The UI shows the outcome of a run the user has stopped.
ShowsStopped ==
    /\ view = ViewComplete
    /\ finalStatus = "stopped"
    /\ finalMessage = "Stopped by user"

\* The goroutine of agent a sent msg after the cancel function of a's context
\* had been called.
ProducedAfterCancel(a, msg) ==
    /\ agents[a].ctxDone
    /\ \E k \in (agents[a].sentAtCancel + 1)..Len(agents[a].sends) :
         agents[a].sends[k].msg = msg

\* Update handles msg in this step.
Handles(msg) == processed' = Append(processed, msg)

\* C37: a stop in the running view calls the cancel function of the run's
\* context and shows the complete view with "stopped" and "Stopped by user";
\* and while the UI shows that outcome, no message the cancelled agent has
\* produced after the stop changes the final status, the final message or
\* the action list when Update handles it.
C37_StopIsFinal ==
    [][/\ view = ViewRunning /\ view' = ViewComplete /\ processed' = processed =>
            /\ agents'[agentCancel].ctxDone
            /\ ShowsStopped'
       /\ \A msg \in delivered :
            ShowsStopped /\ Handles(msg) /\ ProducedAfterCancel(agentCancel, msg) =>
              /\ finalStatus' = finalStatus
              /\ finalMessage' = finalMessage
              /\ actionHistory' = actionHistory]_vars

\* The UI shows, in the running view, a run that was started after the user
\* had stopped the run before it.
ShowsRunAfterStopped ==
    /\ view = ViewRunning
    /\ Cardinality(Started) > 1
    /\ agents[AgentOrder[Cardinality(Started) - 1]].ctxDone

\* C38: runs started from the UI are isolated from each other: while the UI
\* shows a run that was started after an earlier run was stopped, every entry
\* of the displayed action list was executed by the agent of the run on
\* display, and Update takes the UI out of the running view only on a message
\* of that agent (the other steps that leave the view are key presses).
C38_RunsIsolated ==
    [][ShowsRunAfterStopped =>
         /\ \A i \in 1..Len(actionHistory) : actionHistory[i].From = Current
         /\ \A msg \in delivered :
              Handles(msg) /\ view' # ViewRunning => msg.From = Current]_vars

\* Update has handled msg.
Processed(msg) == \E i \in 1..Len(processed) : processed[i] = msg

\* The channel has taken every event agent a has produced and Update has
\* handled each of them.
AllProcessed(a) ==
    \A k \in 1..Len(agents[a].sends) :
      /\ agents[a].sends[k].sent
      /\ Processed(agents[a].sends[k].msg)

\* The event the goroutine of agent a sends next, if it is at a send.
NextEvent(a) ==
    IF agents[a].pc = "notify"
      THEN ActionExecutedMsg(a, Len(agents[a].history), agents[a].nextAction,
                             agents[a].execResult)
      ELSE CompletionMsg(a, agents[a].state, agents[a].result, agents[a].err,
                         agents[a].ctxDone)

\* C31: an event is dropped only if nobody is receiving: while a
\* waitForUpdate receive is pending, the event an agent sends is taken by the
\* channel; and when the channel has taken every event of the run on display
\* and Update has handled each of them, the action list the UI shows for the
\* run has as many entries as the agent's history.
C31_NoLossWhileListening ==
    /\ \A a \in Agents :
         agents[a].pc \in {"notify", "returned"} /\ waiting > 0 =>
           SelectSend(updateCh, waiting, delivered, NextEvent(a)).sent
    /\ view \in {ViewRunning, ViewComplete} /\ agents[Current].pc # "notify"
         /\ AllProcessed(Current) =>
           Len(actionHistory) = Len(agents[Current].history)
====
